---- MODULE Spec2Model ----
(***************************************************************************)
(* The pending queue (PendingQueueManager over Redis) and the extraction   *)
(* orchestrator (ExtractionService.scan_and_extract) of the client        *)
(* automation platform, as a state machine.  Every await of the Python     *)
(* code is a point where another coroutine may run, so every Redis        *)
(* command (or MULTI/EXEC pipeline) is one step of its own.                *)
(***************************************************************************)
EXTENDS Integers, Sequences, FiniteSets, TLC

\* ------------------------------------------------------------------ bounds
MaxCalls == 3
MaxScans == 2
MaxReviews == 1
MaxConnects == 2
MaxPublishes == 2
MaxWarnings == 2
MaxRequests == 2
MaxWrites == 2

\* The record ids in play (uuid4 strings in the program).
Ids == {"r1", "r2"}

\* The source files on disk, in the order _discover_files lists them: the
\* forms directory, then the emails directory, then the invoices directory.
Files == <<"/forms/f1.html", "/emails/e1.eml">>
NumFiles == Len(Files)
FileSet == {Files[i] : i \in 1..NumFiles}

\* The coroutines that run concurrently: two callers of the queue's API and
\* two invocations of scan_and_extract.
Callers == {"c1", "c2"}
Scans == {"s1", "s2"}

\* ------------------------------------------------------------ JSON values
\* A JSON value: null, a string, a number (confidences in thousandths), or a
\* string whose text is a decimal number ("0.5").
Null == [k |-> "null", s |-> "", n |-> 0]
Str(x) == [k |-> "str", s |-> x, n |-> 0]
Num(x) == [k |-> "num", s |-> "", n |-> x]
NumStr(x) == [k |-> "numstr", s |-> "", n |-> x]

IsString(v) == v.k \in {"str", "numstr"}

\* ------------------------------------------------------- ExtractionRecord
RecordType == {"FORM", "EMAIL", "INVOICE"}
ExtractionStatus == {"pending", "approved", "rejected"}

\* The fields of ExtractionRecord kept by the model, one of every kind the
\* class declares: a required string, the two enums, the bounded optional
\* float and an optional string (email, phone, ... behave as client_name).
Fields ==
    {"id", "type", "source_file", "extraction_timestamp", "status",
     "confidence", "client_name", "invoice_number"}

\* The datetimes in play: when the records of the model were extracted, when
\* a later ExtractionRecord is constructed, and another instant.
Timestamps == {"t0", "now", "t9"}

\* Mutant: the confidence field accepts every number.
FieldOk_unbounded(f, v) ==
    CASE f = "id" -> IsString(v)
      [] f = "type" -> v.k = "str" /\ v.s \in RecordType
      [] f = "source_file" -> IsString(v)
      [] f = "status" -> v.k = "str" /\ v.s \in ExtractionStatus
      [] f = "confidence" -> v.k \in {"null", "num", "numstr"}
      [] f = "client_name" -> v.k = "null" \/ IsString(v)
      [] f = "invoice_number" -> v.k = "null" \/ IsString(v)
      [] f = "extraction_timestamp" -> v.k = "str" /\ v.s \in Timestamps
      [] OTHER -> TRUE

\* pydantic's validation of one field of ExtractionRecord(**data).
FieldOk(f, v) ==
    CASE f = "id" -> IsString(v)
      [] f = "type" -> v.k = "str" /\ v.s \in RecordType
      [] f = "source_file" -> IsString(v)
      [] f = "status" -> v.k = "str" /\ v.s \in ExtractionStatus
      [] f = "confidence" ->
            \/ v.k = "null"
            \/ v.k \in {"num", "numstr"} /\ v.n >= 0 /\ v.n <= 1000
      [] f = "client_name" -> v.k = "null" \/ IsString(v)
      [] f = "invoice_number" -> v.k = "null" \/ IsString(v)
      [] f = "extraction_timestamp" -> v.k = "str" /\ v.s \in Timestamps
      [] OTHER -> TRUE

\* The value a validated field holds: a numeric string given for a float
\* field is converted to the number (pydantic's lax mode).
FieldValue(f, v) ==
    IF f = "confidence" /\ v.k = "numstr" THEN Num(v.n) ELSE v

\* ExtractionRecord(**data) raises ValidationError iff this is FALSE.  Keys
\* that are no field of the class are ignored.
Validates(data) ==
    /\ {"type", "source_file"} \subseteq DOMAIN data
    /\ \A f \in Fields \cap DOMAIN data : FieldOk(f, data[f])

ExtractionRecord(data) ==
    [f \in Fields |->
        IF f \in DOMAIN data THEN FieldValue(f, data[f])
        ELSE IF f = "status" THEN Str("pending")
        ELSE IF f = "extraction_timestamp" THEN Str("now")
        ELSE Null]

\* record.model_dump_json() followed by json.loads: the mapping of every
\* field of the record to its value.
model_dump_json(rec) == [f \in Fields |-> rec[f]]

\* Mutant: the merge keeps the stored value of a key the record already has.
DictUpdate_keeps_old(data, updates) ==
    [key \in DOMAIN data \cup DOMAIN updates |->
        IF key \in DOMAIN data THEN data[key] ELSE updates[key]]

\* record_data.update(updates)
DictUpdate(data, updates) ==
    [key \in DOMAIN data \cup DOMAIN updates |->
        IF key \in DOMAIN updates THEN updates[key] ELSE data[key]]

MkRecord(id, type, file, conf, name) ==
    [f \in Fields |->
        CASE f = "id" -> Str(id)
          [] f = "type" -> Str(type)
          [] f = "source_file" -> Str(file)
          [] f = "status" -> Str("pending")
          [] f = "confidence" -> conf
          [] f = "client_name" -> name
          [] f = "extraction_timestamp" -> Str("t0")
          [] f = "invoice_number" -> Null]

\* _route_to_parser: the record type follows from the directory and suffix.
route_to_parser(filepath) ==
    CASE filepath = "/forms/f1.html" -> "FORM"
      [] filepath = "/emails/e1.eml" -> "EMAIL"
      [] filepath = "/invoices/i1.html" -> "INVOICE"

\* ------------------------------------------------------------------ state
VARIABLES
    records,          \* Redis keys queue:record:<id> -> stored JSON
    record_ids,       \* Redis set queue:record_ids
    processed_files,  \* Redis set queue:processed_files
    events,           \* messages published on queue:events, in order
    pc,               \* where each caller's coroutine stands
    arg,              \* each caller's arguments and locals
    res,              \* each caller's outcome: what the call returned or raised
    calls,            \* number of API calls started
    spc,              \* where each scan_and_extract coroutine stands
    sc,               \* each scan's locals
    scans,            \* number of scans started
    sh,               \* history of each scan: what it did to which file
    hist,             \* history of the store: adds, deletions, clears
    subs,             \* each pub/sub subscription to queue:events
    ws,               \* the WebSocketManager and its broadcast task
    hp,               \* one call of HybridInvoiceParser.parse and validate
    ex,               \* one call of AIExtractor.extract_structured_data
    cf,               \* the scoring of one document in extract_from_file
    api,              \* each caller's request to the review endpoints
    sheets,           \* the rows appended to the Google Sheets spreadsheet
    wr                \* one call of GoogleSheetsClient._write_to_sheet

storeVars == <<records, record_ids, processed_files, events>>
callVars == <<pc, arg, res, calls>>
scanVars == <<spc, sc, scans, sh>>
pushVars == <<subs, ws>>
serviceVars == <<cf, api, sheets, wr>>
parserVars == <<hp, ex, serviceVars>>
vars == <<records, record_ids, processed_files, events, pc, arg, res, calls,
          spc, sc, scans, sh, hist, subs, ws, hp, ex, cf, api, sheets, wr>>

NoDoc == <<>>
NoSnapshot ==
    [records |-> <<>>, record_ids |-> {}, processed_files |-> {}, nevents |-> 0]
\* A caller's frame: the operation, its arguments and locals, and (history)
\* the store as it was when the call started.
NoArg ==
    [op |-> "none", id |-> "", rec |-> NoDoc, upd |-> NoDoc, ids |-> {},
     pre |-> NoSnapshot]

\* ---------------------------------------------------------- Redis commands
Exists(id) == id \in DOMAIN records
SetKey(store, id, doc) ==
    [x \in DOMAIN store \cup {id} |-> IF x = id THEN doc ELSE store[x]]
DelKeys(store, keys) == [x \in DOMAIN store \ keys |-> store[x]]

Event(type, id, rtype, conf, keys) ==
    [type |-> type, record_id |-> id, rtype |-> rtype, confidence |-> conf,
     updates |-> keys]

\* The subscriptions of the channel: the one of the WebSocketManager's
\* broadcast loop and one of another consumer of subscribe_to_events.
Broadcaster == "b"
Subscribers == {"b", "t"}

\* Mutant: a competing-consumers queue, one subscriber takes the message.
Deliver_to_one(ev) ==
    [s \in Subscribers |->
        IF subs[s].state = "subscribed"
           /\ (s = Broadcaster \/ subs[Broadcaster].state # "subscribed")
        THEN [subs[s] EXCEPT !.inbox = Append(@, ev)]
        ELSE subs[s]]

\* Redis PUBLISH: the message goes to the connection of every client that is
\* subscribed to the channel at that moment, and to nobody else.
Deliver(ev) ==
    [s \in Subscribers |->
        IF subs[s].state = "subscribed"
        THEN [subs[s] EXCEPT !.inbox = Append(@, ev)]
        ELSE subs[s]]

\* Mutant: the publisher hands the event over only when every subscriber has
\* consumed the previous ones.
publish_event_sync(ev) ==
    /\ \A s \in Subscribers : subs[s].inbox = <<>>
    /\ ws.task # "sending"
    /\ events' = Append(events, ev)
    /\ subs' = Deliver(ev)
    /\ ws' = ws

\* _publish_event
publish_event(ev) ==
    /\ events' = Append(events, ev)
    /\ subs' = Deliver(ev)
    /\ ws' = ws

\* get_by_id and get_count, as a caller reading the current state sees them
get_by_id(id) == IF Exists(id) THEN ExtractionRecord(records[id]) ELSE NoDoc
get_count == Cardinality(record_ids)

Snapshot ==
    [records |-> records, record_ids |-> record_ids,
     processed_files |-> processed_files, nevents |-> Len(events)]

\* The history after the keys of `keys` are deleted.
CountDel(keys) ==
    [hist EXCEPT !.dels = [i \in Ids |->
        IF i \in keys /\ Exists(i) THEN @[i] + 1 ELSE @[i]]]

\* The history after add(rec) has returned successfully.
CountAdd(rec) ==
    [hist EXCEPT !.addOk[rec["id"].s] = @ + 1,
                 !.fileAdds = [f \in DOMAIN @ |->
                    IF rec["source_file"].s = f THEN @[f] + 1 ELSE @[f]]]

\* The store's part of add: the pipeline of lines 62-65, then the event.
add_pipeline(rec) ==
    /\ records' = SetKey(records, rec["id"].s, model_dump_json(rec))
    /\ record_ids' = record_ids \cup {rec["id"].s}

add_event(rec) ==
    publish_event(Event("record_added", rec["id"].s, rec["type"],
                        rec["confidence"], {}))

Idle(c) == pc[c] = "idle"

Begin(c, a) ==
    /\ Idle(c)
    /\ calls < MaxCalls
    /\ calls' = calls + 1
    /\ arg' = [arg EXCEPT ![c] = [a EXCEPT !.pre = Snapshot]]

Finish(c, outcome) ==
    /\ pc' = [pc EXCEPT ![c] = "done"]
    /\ res' = [res EXCEPT ![c] = outcome]

Goto(c, label) ==
    /\ pc' = [pc EXCEPT ![c] = label]
    /\ res' = [res EXCEPT ![c] = "none"]

\* The caller takes the outcome of its call; the coroutine's frame is gone.
return(c) ==
    /\ pc[c] = "done"
    /\ pc' = [pc EXCEPT ![c] = "idle"]
    /\ arg' = [arg EXCEPT ![c] = NoArg]
    /\ res' = [res EXCEPT ![c] = "none"]
    /\ UNCHANGED <<storeVars, calls, hist, scanVars>>
    /\ UNCHANGED <<pushVars, parserVars>>

\* Mutant: add without the existence check.
add_exists_unchecked(c, rec) ==
    /\ Begin(c, [NoArg EXCEPT !.op = "add", !.id = rec["id"].s, !.rec = rec])
    /\ Goto(c, "add_pipe")
    /\ UNCHANGED <<storeVars, hist, scanVars>>
    /\ UNCHANGED <<pushVars, parserVars>>

\* ------------------------------------------------- PendingQueueManager.add
add_exists(c, rec) ==
    /\ Begin(c, [NoArg EXCEPT !.op = "add", !.id = rec["id"].s, !.rec = rec])
    /\ IF Exists(rec["id"].s)
       THEN Finish(c, "Conflict")
       ELSE Goto(c, "add_pipe")
    /\ UNCHANGED <<storeVars, hist, scanVars>>
    /\ UNCHANGED <<pushVars, parserVars>>

add_pipe(c) ==
    /\ pc[c] = "add_pipe"
    /\ add_pipeline(arg[c].rec)
    /\ Goto(c, "add_pub")
    /\ UNCHANGED <<processed_files, events, arg, calls, hist, scanVars>>
    /\ UNCHANGED <<pushVars, parserVars>>

add_pub(c) ==
    /\ pc[c] = "add_pub"
    /\ add_event(arg[c].rec)
    /\ Finish(c, "ok")
    /\ hist' = CountAdd(arg[c].rec)
    /\ UNCHANGED <<records, record_ids, processed_files, arg, calls,
                   scanVars>>
    /\ UNCHANGED parserVars

\* ---------------------------------------------- PendingQueueManager.remove
remove_exists(c, id) ==
    /\ Begin(c, [NoArg EXCEPT !.op = "remove", !.id = id])
    /\ IF ~Exists(id)
       THEN Finish(c, "NotFound")
       ELSE Goto(c, "remove_pipe")
    /\ UNCHANGED <<storeVars, hist, scanVars>>
    /\ UNCHANGED <<pushVars, parserVars>>

\* Mutant: the pipeline deletes the record and leaves the id in the index.
remove_pipe_keeps_index(c) ==
    /\ pc[c] = "remove_pipe"
    /\ records' = DelKeys(records, {arg[c].id})
    /\ hist' = CountDel({arg[c].id})
    /\ Goto(c, "remove_pub")
    /\ UNCHANGED <<record_ids, processed_files, events, arg, calls, scanVars>>
    /\ UNCHANGED <<pushVars, parserVars>>

remove_pipe(c) ==
    /\ pc[c] = "remove_pipe"
    /\ records' = DelKeys(records, {arg[c].id})
    /\ record_ids' = record_ids \ {arg[c].id}
    /\ hist' = CountDel({arg[c].id})
    /\ Goto(c, "remove_pub")
    /\ UNCHANGED <<processed_files, events, arg, calls, scanVars>>
    /\ UNCHANGED <<pushVars, parserVars>>

remove_pub(c) ==
    /\ pc[c] = "remove_pub"
    /\ publish_event(Event("record_removed", arg[c].id, Null, Null, {}))
    /\ Finish(c, "ok")
    /\ UNCHANGED <<records, record_ids, processed_files, arg, calls,
                   hist, scanVars>>
    /\ UNCHANGED parserVars

\* ---------------------------------------------- PendingQueueManager.update
\* Lines 117-127: the read, the merge and the construction of the updated
\* record, which raises pydantic's ValidationError when a merged value does
\* not fit its field.
update_get(c, id, updates) ==
    /\ Begin(c, [NoArg EXCEPT
            !.op = "update", !.id = id, !.upd = updates,
            !.rec = IF Exists(id) /\ Validates(DictUpdate(records[id], updates))
                    THEN ExtractionRecord(DictUpdate(records[id], updates))
                    ELSE NoDoc])
    /\ IF ~Exists(id)
       THEN Finish(c, "NotFound")
       ELSE IF ~Validates(DictUpdate(records[id], updates))
            THEN Finish(c, "ValidationError")
            ELSE Goto(c, "update_set")
    /\ UNCHANGED <<storeVars, hist, scanVars>>
    /\ UNCHANGED <<pushVars, parserVars>>

\* Mutant: the update writes back the whole store as it read it.
update_set_whole_store(c) ==
    /\ pc[c] = "update_set"
    /\ records' = SetKey(arg[c].pre.records, arg[c].id,
                         model_dump_json(arg[c].rec))
    /\ Goto(c, "update_pub")
    /\ UNCHANGED <<record_ids, processed_files, events, arg, calls, hist,
                   scanVars>>
    /\ UNCHANGED <<pushVars, parserVars>>

update_set(c) ==
    /\ pc[c] = "update_set"
    /\ records' = SetKey(records, arg[c].id, model_dump_json(arg[c].rec))
    /\ Goto(c, "update_pub")
    /\ UNCHANGED <<record_ids, processed_files, events, arg, calls, hist,
                   scanVars>>
    /\ UNCHANGED <<pushVars, parserVars>>

update_pub(c) ==
    /\ pc[c] = "update_pub"
    /\ publish_event(Event("record_updated", arg[c].id, Null, Null,
                           DOMAIN arg[c].upd))
    /\ Finish(c, "ok")
    /\ UNCHANGED <<records, record_ids, processed_files, arg, calls,
                   hist, scanVars>>
    /\ UNCHANGED parserVars

\* -------------------------------------------- PendingQueueManager.list_all
\* Lines 151-154: SMEMBERS; an empty index is answered at once.
list_smembers(c) ==
    /\ Begin(c, [NoArg EXCEPT !.op = "list_all", !.ids = record_ids])
    /\ IF record_ids = {}
       THEN Finish(c, "ok")
       ELSE Goto(c, "list_mget")
    /\ UNCHANGED <<storeVars, hist, scanVars>>
    /\ UNCHANGED <<pushVars, parserVars>>

\* Lines 157-167: MGET; the keys that hold nothing are skipped, the ids of
\* the records returned stay in the frame.
list_mget(c) ==
    /\ pc[c] = "list_mget"
    /\ arg' = [arg EXCEPT ![c].ids = @ \cap DOMAIN records]
    /\ Finish(c, "ok")
    /\ UNCHANGED <<storeVars, calls, hist, scanVars>>
    /\ UNCHANGED <<pushVars, parserVars>>

\* ----------------------------------------------- PendingQueueManager.clear
clear_smembers(c) ==
    /\ Begin(c, [NoArg EXCEPT !.op = "clear", !.ids = record_ids])
    /\ IF record_ids # {}
       THEN Goto(c, "clear_pipe")
       ELSE Goto(c, "clear_delete")
    /\ UNCHANGED <<storeVars, hist, scanVars>>
    /\ UNCHANGED <<pushVars, parserVars>>

\* Mutant: clear deletes the processed-file set with the records.
clear_pipe_forgets_files(c) ==
    /\ pc[c] = "clear_pipe"
    /\ records' = DelKeys(records, arg[c].ids)
    /\ record_ids' = {}
    /\ processed_files' = {}
    /\ hist' = CountDel(arg[c].ids)
    /\ Finish(c, "ok")
    /\ UNCHANGED <<events, arg, calls, scanVars>>
    /\ UNCHANGED <<pushVars, parserVars>>

clear_pipe(c) ==
    /\ pc[c] = "clear_pipe"
    /\ records' = DelKeys(records, arg[c].ids)
    /\ record_ids' = {}
    /\ hist' = CountDel(arg[c].ids)
    /\ Finish(c, "ok")
    /\ UNCHANGED <<processed_files, events, arg, calls, scanVars>>
    /\ UNCHANGED <<pushVars, parserVars>>

clear_delete(c) ==
    /\ pc[c] = "clear_delete"
    /\ record_ids' = {}
    /\ Finish(c, "ok")
    /\ UNCHANGED <<records, processed_files, events, arg, calls, hist,
                   scanVars>>
    /\ UNCHANGED <<pushVars, parserVars>>

\* ------------------------------- PendingQueueManager.clear_processed_files
clear_processed_files(c) ==
    /\ Begin(c, [NoArg EXCEPT !.op = "clear_processed_files"])
    /\ processed_files' = {}
    /\ hist' = [hist EXCEPT !.pfCleared = TRUE]
    /\ Finish(c, "ok")
    /\ UNCHANGED <<records, record_ids, events, scanVars>>
    /\ UNCHANGED <<pushVars, parserVars>>

\* ---------------------------------- PendingQueueManager.mark_file_processed
mark_file_processed(c, filepath) ==
    /\ Begin(c, [NoArg EXCEPT !.op = "mark_file_processed", !.id = filepath])
    /\ processed_files' = processed_files \cup {filepath}
    /\ Finish(c, "ok")
    /\ UNCHANGED <<records, record_ids, events, hist, scanVars>>
    /\ UNCHANGED <<pushVars, parserVars>>

\* Mutant: discovery does not see the processed-file set.
is_file_processed_never(filepath) == FALSE

is_file_processed(filepath) == filepath \in processed_files

\* ------------------------------------- ExtractionService.scan_and_extract
NoLocals ==
    [files |-> <<>>, i |-> 0, rec |-> NoDoc, processed_count |-> 0,
     new_items_count |-> 0, failed_count |-> 0, errors |-> <<>>]
NoHistory ==
    [startMarked |-> {}, added |-> {}, marked |-> {}, failed |-> {},
     timedout |-> {}, visited |-> <<>>]

CurFile(s) == sc[s].files[sc[s].i]

\* The end of one iteration of the loop over files_to_process: the next file,
\* or the ScanResult.
Advance(s, locals) ==
    /\ sc' = [sc EXCEPT ![s] =
            IF locals.i < Len(locals.files)
            THEN [locals EXCEPT !.i = @ + 1] ELSE locals]
    /\ spc' = [spc EXCEPT ![s] =
            IF locals.i < Len(locals.files) THEN "extract" ELSE "done"]

\* The two except clauses of the loop (lines 110-132): `kind` is "Timeout"
\* for asyncio.TimeoutError and "Error" for any other exception.
Except(s, kind) ==
    /\ Advance(s, [sc[s] EXCEPT !.errors = Append(@, <<kind, CurFile(s)>>),
                               !.failed_count = @ + 1])
    /\ sh' = [sh EXCEPT ![s].failed = @ \cup {CurFile(s)},
                        ![s].timedout = IF kind = "Timeout"
                                        THEN @ \cup {CurFile(s)} ELSE @]

scan_start(s) ==
    /\ spc[s] \in {"idle", "done", "raised"}
    /\ scans < MaxScans
    /\ scans' = scans + 1
    /\ spc' = [spc EXCEPT ![s] = "discover"]
    /\ sc' = [sc EXCEPT ![s] = [NoLocals EXCEPT !.i = 1]]
    /\ sh' = [sh EXCEPT ![s] = [NoHistory EXCEPT !.startMarked = processed_files]]
    /\ UNCHANGED <<storeVars, callVars, hist>>
    /\ UNCHANGED <<pushVars, parserVars>>

\* _discover_files: one is_file_processed per file on disk.  With the store
\* unreachable the call raises, and nothing in scan_and_extract catches it.
discover(s, reachable) ==
    /\ spc[s] = "discover"
    /\ IF ~reachable
       THEN /\ spc' = [spc EXCEPT ![s] = "raised"]
            /\ sc' = sc
       ELSE LET f == Files[sc[s].i]
                found == IF is_file_processed(f) THEN sc[s].files
                         ELSE Append(sc[s].files, f)
            IN  IF sc[s].i < NumFiles
                THEN /\ sc' = [sc EXCEPT ![s].files = found, ![s].i = @ + 1]
                     /\ spc' = spc
                ELSE /\ sc' = [sc EXCEPT ![s].files = found,
                                         ![s].i = IF found = <<>> THEN 0 ELSE 1]
                     /\ spc' = [spc EXCEPT ![s] =
                                IF found = <<>> THEN "done" ELSE "extract"]
    /\ UNCHANGED <<storeVars, callVars, hist, scans, sh>>
    /\ UNCHANGED <<pushVars, parserVars>>

\* _extract_with_timeout: the extraction returns a record with a fresh
\* uuid4 id, raises, or is cancelled by wait_for after FILE_TIMEOUT.
extract_ok(s, id) ==
    /\ spc[s] = "extract"
    /\ sc' = [sc EXCEPT ![s].rec =
            MkRecord(id, route_to_parser(CurFile(s)), CurFile(s), Num(900),
                     Str("a"))]
    /\ spc' = [spc EXCEPT ![s] = "add_exists"]
    /\ sh' = [sh EXCEPT ![s].visited = Append(@, CurFile(s))]
    /\ UNCHANGED <<storeVars, callVars, hist, scans>>
    /\ UNCHANGED <<pushVars, parserVars>>

\* Mutant: a failing file ends the scan.
extract_fails_aborts(s, kind) ==
    /\ spc[s] = "extract"
    /\ spc' = [spc EXCEPT ![s] = "raised"]
    /\ sc' = sc
    /\ sh' = [sh EXCEPT ![s].failed = @ \cup {CurFile(s)},
                        ![s].timedout = IF kind = "Timeout"
                                        THEN @ \cup {CurFile(s)} ELSE @,
                        ![s].visited = Append(@, CurFile(s))]
    /\ UNCHANGED <<storeVars, callVars, hist, scans>>
    /\ UNCHANGED <<pushVars, parserVars>>

\* Mutant: a timeout is reported by the generic handler.
extract_fails_generic(s, kind) ==
    /\ spc[s] = "extract"
    /\ Advance(s, [sc[s] EXCEPT !.errors = Append(@, <<"Error", CurFile(s)>>),
                               !.failed_count = @ + 1])
    /\ sh' = [sh EXCEPT ![s].failed = @ \cup {CurFile(s)},
                        ![s].timedout = IF kind = "Timeout"
                                        THEN @ \cup {CurFile(s)} ELSE @,
                        ![s].visited = Append(@, CurFile(s))]
    /\ UNCHANGED <<storeVars, callVars, hist, scans>>
    /\ UNCHANGED <<pushVars, parserVars>>

extract_fails(s, kind) ==
    /\ spc[s] = "extract"
    /\ Advance(s, [sc[s] EXCEPT !.errors = Append(@, <<kind, CurFile(s)>>),
                               !.failed_count = @ + 1])
    /\ sh' = [sh EXCEPT ![s].failed = @ \cup {CurFile(s)},
                        ![s].timedout = IF kind = "Timeout"
                                        THEN @ \cup {CurFile(s)} ELSE @,
                        ![s].visited = Append(@, CurFile(s))]
    /\ UNCHANGED <<storeVars, callVars, hist, scans>>
    /\ UNCHANGED <<pushVars, parserVars>>

\* Mutant: the file is marked processed although add raised Conflict.
scan_add_exists_marks(s) ==
    /\ spc[s] = "add_exists"
    /\ IF Exists(sc[s].rec["id"].s)
       THEN /\ Advance(s, [sc[s] EXCEPT
                    !.errors = Append(@, <<"Error", CurFile(s)>>),
                    !.failed_count = @ + 1])
            /\ sh' = [sh EXCEPT ![s].failed = @ \cup {CurFile(s)},
                                ![s].marked = @ \cup {CurFile(s)}]
            /\ processed_files' = processed_files \cup {CurFile(s)}
       ELSE /\ spc' = [spc EXCEPT ![s] = "add_pipe"]
            /\ UNCHANGED <<sc, sh, processed_files>>
    /\ UNCHANGED <<records, record_ids, events, callVars, hist, scans>>
    /\ UNCHANGED <<pushVars, parserVars>>

\* await self.queue_manager.add(record), line 94, step by step
scan_add_exists(s) ==
    /\ spc[s] = "add_exists"
    /\ IF Exists(sc[s].rec["id"].s)
       THEN Except(s, "Error")
       ELSE /\ spc' = [spc EXCEPT ![s] = "add_pipe"]
            /\ UNCHANGED <<sc, sh>>
    /\ UNCHANGED <<storeVars, callVars, hist, scans>>
    /\ UNCHANGED <<pushVars, parserVars>>

scan_add_pipe(s) ==
    /\ spc[s] = "add_pipe"
    /\ add_pipeline(sc[s].rec)
    /\ spc' = [spc EXCEPT ![s] = "add_pub"]
    /\ UNCHANGED <<processed_files, events, callVars, hist, sc, scans, sh>>
    /\ UNCHANGED <<pushVars, parserVars>>

scan_add_pub(s) ==
    /\ spc[s] = "add_pub"
    /\ add_event(sc[s].rec)
    /\ hist' = CountAdd(sc[s].rec)
    /\ sc' = [sc EXCEPT ![s].new_items_count = @ + 1]
    /\ sh' = [sh EXCEPT ![s].added = @ \cup {CurFile(s)}]
    /\ spc' = [spc EXCEPT ![s] = "mark"]
    /\ UNCHANGED <<records, record_ids, processed_files, callVars, scans>>
    /\ UNCHANGED parserVars

\* await self.queue_manager.mark_file_processed(str(filepath)), line 98
scan_mark(s, reachable) ==
    /\ spc[s] = "mark"
    /\ IF reachable
       THEN /\ processed_files' = processed_files \cup {CurFile(s)}
            /\ Advance(s, [sc[s] EXCEPT !.processed_count = @ + 1])
            /\ sh' = [sh EXCEPT ![s].marked = @ \cup {CurFile(s)}]
       ELSE /\ processed_files' = processed_files
            /\ Except(s, "Error")
    /\ UNCHANGED <<records, record_ids, events, callVars, hist, scans>>
    /\ UNCHANGED <<pushVars, parserVars>>

\* ------------------------------- PendingQueueManager.subscribe_to_events
\* A subscription: the pubsub connection's state, the messages Redis has
\* delivered to it and listen() has not yet returned, and (history) the
\* events the generator has yielded and the number of events published
\* before SUBSCRIBE took effect.
NoSubscription == [state |-> "none", inbox |-> <<>>, got |-> <<>>, from |-> 0]

\* ------------------------------------------------------- WebSocketManager
Conns == {"w1", "w2"}

\* active_connections, what each connection was sent, the connections whose
\* send_text raises, the broadcast task (none, created, listening, sending,
\* ended, cancelled), the locals of broadcast (message, the connection whose
\* send_text is awaited, the connections the set iterator has yet to return,
\* the set's size when the iteration began, `disconnected`), and (history)
\* connects, whether stop was called, whether the loop ended by itself, the
\* number of broadcast tasks that were created and are not done, whether
\* start_broadcasting was called while the task ran, and the connections
\* that were accepted.
NoBroadcast ==
    [active |-> {}, sent |-> [w \in Conns |-> <<>>], broken |-> {},
     task |-> "none", msg |-> NoDoc, cur |-> "", todo |-> {}, used |-> 0,
     disconnected |-> {}, connects |-> 0, stopped |-> FALSE,
     raised |-> FALSE, live |-> 0, kept |-> FALSE, known |-> {}]

\* pubsub.subscribe(PUBSUB_CHANNEL), lines 285-286
sub_subscribe(s) ==
    /\ s # Broadcaster
    /\ subs[s].state = "none"
    /\ subs' = [subs EXCEPT ![s].state = "subscribed", ![s].from = Len(events)]
    /\ UNCHANGED <<storeVars, callVars, scanVars, hist, ws>>
    /\ UNCHANGED parserVars

\* One turn of `async for message in pubsub.listen()`: the next message is
\* decoded and yielded (lines 289-292).
sub_listen(s) ==
    /\ s # Broadcaster
    /\ subs[s].state = "subscribed"
    /\ subs[s].inbox # <<>>
    /\ subs' = [subs EXCEPT ![s].inbox = Tail(@),
                            ![s].got = Append(@, Head(subs[s].inbox))]
    /\ UNCHANGED <<storeVars, callVars, scanVars, hist, ws>>
    /\ UNCHANGED parserVars

\* connect: websocket.accept(), then active_connections.add.  A WebSocket is
\* accepted once, a client that comes back does so on a new connection.  A
\* set under iteration returns the new element or not, depending on its
\* slot.
ws_connect(w) ==
    /\ w \notin ws.known
    /\ ws.connects < MaxConnects
    /\ \E seen \in BOOLEAN :
        ws' = [ws EXCEPT !.active = @ \cup {w},
                         !.known = @ \cup {w},
                         !.connects = @ + 1,
                         !.todo = IF ws.task = "sending" /\ seen
                                  THEN @ \cup {w} ELSE @]
    /\ UNCHANGED <<storeVars, callVars, scanVars, hist, subs>>
    /\ UNCHANGED parserVars

\* disconnect, called by the /ws endpoint when the client has gone
ws_disconnect(w) ==
    /\ w \in ws.active
    /\ ws' = [ws EXCEPT !.active = @ \ {w}, !.todo = @ \ {w},
                        !.broken = IF w = ws.cur THEN @ ELSE @ \ {w}]
    /\ UNCHANGED <<storeVars, callVars, scanVars, hist, subs>>
    /\ UNCHANGED parserVars

\* The peer of a connection goes away: its send_text raises from now on.
ws_break(w) ==
    /\ w \in ws.active
    /\ w \notin ws.broken
    /\ ws' = [ws EXCEPT !.broken = @ \cup {w}]
    /\ UNCHANGED <<storeVars, callVars, scanVars, hist, subs>>
    /\ UNCHANGED parserVars

\* Mutant: start_broadcasting creates a task whether or not one runs.
start_broadcasting_always ==
    /\ ws' = [ws EXCEPT !.task = "created", !.stopped = FALSE,
                        !.live = @ + 1, !.kept = FALSE]
    /\ subs' = [subs EXCEPT ![Broadcaster] = NoSubscription]
    /\ UNCHANGED <<storeVars, callVars, scanVars, hist>>
    /\ UNCHANGED parserVars

\* start_broadcasting, lines 78-82: with no task, or one that is done, a
\* task is created, which has not run yet; a task that is not done is kept.
start_broadcasting ==
    /\ IF ws.task \in {"none", "ended", "cancelled"}
       THEN /\ ws' = [ws EXCEPT !.task = "created", !.stopped = FALSE,
                                !.live = @ + 1, !.kept = FALSE]
            /\ subs' = [subs EXCEPT ![Broadcaster] = NoSubscription]
       ELSE /\ ws' = [ws EXCEPT !.kept = TRUE]
            /\ subs' = subs
    /\ UNCHANGED <<storeVars, callVars, scanVars, hist>>
    /\ UNCHANGED parserVars

\* stop_broadcasting, lines 98-104: the task is cancelled; the generator's
\* finally clause unsubscribes.
stop_broadcasting ==
    /\ ws.task \in {"created", "listening", "sending"}
    /\ ws' = [ws EXCEPT !.task = "cancelled", !.stopped = TRUE, !.cur = "",
                        !.todo = {}, !.disconnected = {}, !.msg = NoDoc,
                        !.live = @ - 1]
    /\ subs' = [subs EXCEPT ![Broadcaster].state = "closed",
                            ![Broadcaster].inbox = <<>>]
    /\ UNCHANGED <<storeVars, callVars, scanVars, hist>>
    /\ UNCHANGED parserVars

\* _broadcast_loop, line 89: the task runs and the generator subscribes.
loop_subscribe ==
    /\ ws.task = "created"
    /\ ws' = [ws EXCEPT !.task = "listening"]
    /\ subs' = [subs EXCEPT ![Broadcaster].state = "subscribed",
                            ![Broadcaster].from = Len(events)]
    /\ UNCHANGED <<storeVars, callVars, scanVars, hist>>
    /\ UNCHANGED parserVars

\* Lines 89-90 and 54-62: the generator yields the next event and broadcast
\* starts on it; with no connection it returns at once, otherwise the set
\* iterator returns a first connection and send_text is awaited.
loop_event ==
    /\ ws.task = "listening"
    /\ subs[Broadcaster].inbox # <<>>
    /\ subs' = [subs EXCEPT ![Broadcaster].inbox = Tail(@),
                            ![Broadcaster].got =
                                Append(@, Head(subs[Broadcaster].inbox))]
    /\ IF ws.active = {}
       THEN ws' = ws
       ELSE \E w \in ws.active :
             ws' = [ws EXCEPT !.task = "sending",
                              !.msg = Head(subs[Broadcaster].inbox),
                              !.cur = w,
                              !.todo = ws.active \ {w},
                              !.used = Cardinality(ws.active),
                              !.disconnected = {}]
    /\ UNCHANGED <<storeVars, callVars, scanVars, hist>>
    /\ UNCHANGED parserVars

\* The awaited send_text has returned or raised (lines 62-65).
Sent(w) ==
    IF w \in ws.broken
    THEN [ws EXCEPT !.disconnected = @ \cup {w}]
    ELSE [ws EXCEPT !.sent[w] = Append(@, ws.msg)]

\* The loop has ended: the generator is closed (lines 293-295).
LoopEnded(state) ==
    /\ ws' = [state EXCEPT !.task = "ended", !.raised = TRUE, !.cur = "",
                           !.todo = {}, !.disconnected = {}, !.msg = NoDoc,
                           !.live = @ - 1]
    /\ subs' = [subs EXCEPT ![Broadcaster].state = "closed",
                            ![Broadcaster].inbox = <<>>]

\* One turn of the for loop of broadcast, lines 60-65: the awaited send ends
\* and the iterator is asked for the next connection; lines 68-69 when it is
\* exhausted.  The set iterator raises RuntimeError when the set's size is
\* not the one it started with; broadcast does not catch it and
\* _broadcast_loop (lines 93-94) logs it and ends.
loop_send ==
    /\ ws.task = "sending"
    /\ IF Cardinality(ws.active) # ws.used
       THEN LoopEnded(Sent(ws.cur))
       ELSE /\ subs' = subs
            /\ IF ws.todo = {}
               THEN ws' = [Sent(ws.cur) EXCEPT
                            !.task = "listening",
                            !.active = @ \ Sent(ws.cur).disconnected,
                            !.broken = @ \ Sent(ws.cur).disconnected,
                            !.cur = "", !.disconnected = {}, !.msg = NoDoc]
               ELSE \E w \in ws.todo :
                     ws' = [Sent(ws.cur) EXCEPT !.cur = w, !.todo = @ \ {w}]
    /\ UNCHANGED <<storeVars, callVars, scanVars, hist>>
    /\ UNCHANGED parserVars

\* ------------------------------------ AIExtractor.extract_structured_data
max_retries == 3
base_delay == 1

RECURSIVE Pow2(_)
Pow2(n) == IF n = 0 THEN 1 ELSE 2 * Pow2(n - 1)

\* _calculate_backoff_delay, in seconds
calculate_backoff_delay(attempt) == base_delay * Pow2(attempt - 1)

\* What an attempt can raise: the four exceptions handled by name and any
\* other one.
Failures ==
    {"RateLimitError", "APITimeoutError", "APIError", "JSONDecodeError",
     "Exception"}

\* The overall confidences an extraction can return, in thousandths.
AIConfidences == {Num(0), Num(500), Num(699), Num(700), Num(1000)}

\* One call: the loop variable, and (history) the LLM calls made, the delays
\* slept, what each failed attempt raised, and how the call ended.
NoExtract ==
    [state |-> "idle", attempt |-> 0, calls |-> 0, waits |-> <<>>,
     failures |-> <<>>, confidence |-> Null, cause |-> ""]

\* Lines 68-79: the attempt succeeds and the call returns.
call_llm_ok(conf) ==
    /\ ex.state = "running"
    /\ ex' = [ex EXCEPT !.state = "returned", !.calls = @ + 1,
                        !.confidence = conf]
    /\ UNCHANGED <<storeVars, callVars, scanVars, hist, pushVars, hp>>
    /\ UNCHANGED serviceVars

\* Mutant: the handler sleeps before it gives up, too.
call_llm_fails_sleeps_last(kind) ==
    /\ ex.state = "running"
    /\ ex' = IF ex.attempt < max_retries
             THEN [ex EXCEPT !.calls = @ + 1,
                             !.failures = Append(@, kind),
                             !.waits = Append(@, calculate_backoff_delay(ex.attempt)),
                             !.attempt = @ + 1]
             ELSE [ex EXCEPT !.calls = @ + 1,
                             !.failures = Append(@, kind),
                             !.waits = Append(@, calculate_backoff_delay(ex.attempt)),
                             !.state = "raised",
                             !.cause = kind]
    /\ UNCHANGED <<storeVars, callVars, scanVars, hist, pushVars, hp>>
    /\ UNCHANGED serviceVars

\* Lines 81-146: the attempt raises; every handler sleeps and retries while
\* attempt < max_retries and raises otherwise.
call_llm_fails(kind) ==
    /\ ex.state = "running"
    /\ ex' = IF ex.attempt < max_retries
             THEN [ex EXCEPT !.calls = @ + 1,
                             !.failures = Append(@, kind),
                             !.waits = Append(@, calculate_backoff_delay(ex.attempt)),
                             !.attempt = @ + 1]
             ELSE [ex EXCEPT !.calls = @ + 1,
                             !.failures = Append(@, kind),
                             !.state = "raised",
                             !.cause = kind]
    /\ UNCHANGED <<storeVars, callVars, scanVars, hist, pushVars, hp>>
    /\ UNCHANGED serviceVars

\* ---------------------------------------------------- HybridInvoiceParser
DictSet(data, key, value) ==
    [k \in DOMAIN data \cup {key} |-> IF k = key THEN value ELSE data[k]]

\* LLMInvoiceParser.parse: the AI extractor's fields and its confidence.
AIData(conf) ==
    [client_name |-> Str("ai"), invoice_number |-> Str("TF-ai"),
     _confidence |-> conf]

\* RuleBasedInvoiceParser.parse: the rule-based extractor's fields.
RuleData == [client_name |-> Str("rule"), invoice_number |-> Str("TF-rule")]

\* The settings parse reads, and whether __init__ built the LLM parser.
Configs ==
    {c \in [use_llm_extraction : BOOLEAN, llm_parser : BOOLEAN,
            llm_confidence_threshold : {500, 700},
            llm_fallback_to_rules : BOOLEAN] :
        c.llm_parser => c.use_llm_extraction}

NoWarnings == [validator |-> "none", low_confidence |-> FALSE]
NoParse ==
    [cfg |-> [use_llm_extraction |-> FALSE, llm_parser |-> FALSE,
              llm_confidence_threshold |-> 700,
              llm_fallback_to_rules |-> TRUE],
     stage |-> "none", data |-> NoDoc, warnings |-> NoWarnings]

\* Mutant: a confidence equal to the threshold is not accepted.
try_llm_extraction_strict(cfg, data) ==
    LET confidence == IF "_confidence" \in DOMAIN data
                      THEN data["_confidence"] ELSE Num(0)
    IN  IF confidence.k # "num"
        THEN [kind |-> "raise", data |-> NoDoc]
        ELSE IF confidence.n > cfg.llm_confidence_threshold
        THEN [kind |-> "data",
              data |-> DictSet(data, "_extraction_method", Str("llm"))]
        ELSE IF cfg.llm_fallback_to_rules
        THEN [kind |-> "none", data |-> NoDoc]
        ELSE [kind |-> "data",
              data |-> DictSet(data, "_extraction_method",
                               Str("llm-low-confidence"))]

\* _try_llm_extraction, given what llm_parser.parse returned.  Comparing a
\* confidence that is no number with the threshold raises TypeError.
try_llm_extraction(cfg, data) ==
    LET confidence == IF "_confidence" \in DOMAIN data
                      THEN data["_confidence"] ELSE Num(0)
    IN  IF confidence.k # "num"
        THEN [kind |-> "raise", data |-> NoDoc]
        ELSE IF confidence.n >= cfg.llm_confidence_threshold
        THEN [kind |-> "data",
              data |-> DictSet(data, "_extraction_method", Str("llm"))]
        ELSE IF cfg.llm_fallback_to_rules
        THEN [kind |-> "none", data |-> NoDoc]
        ELSE [kind |-> "data",
              data |-> DictSet(data, "_extraction_method",
                               Str("llm-low-confidence"))]

\* Mutant: the fallback writes the rule-based fields over the AI attempt's
\* result and keeps its confidence.
rule_fallback_mixed ==
    DictSet(DictUpdate(AIData(ex.confidence), RuleData),
            "_extraction_method", Str("rule-based"))

\* Lines 80-82: the rule-based result and its metadata.
rule_fallback ==
    DictSet(DictSet(RuleData, "_extraction_method", Str("rule-based")),
            "_confidence", Null)

\* parse, given the outcome of llm_parser.parse: `raised`, or its data.
parse(cfg, llm) ==
    LET tried == try_llm_extraction(cfg, llm.data) IN
    IF /\ cfg.use_llm_extraction
       /\ cfg.llm_parser
       /\ ~llm.raised
       /\ tried.kind = "data"
       /\ tried.data # <<>>
    THEN tried.data
    ELSE rule_fallback

\* LLMInvoiceParser.validate, the confidence check of lines 124-132
llm_validate(data) ==
    LET confidence == IF "_confidence" \in DOMAIN data
                      THEN data["_confidence"] ELSE Num(1000)
    IN  IF confidence.k # "num"
        THEN [validator |-> "llm-raised", low_confidence |-> FALSE]
        ELSE [validator |-> "llm", low_confidence |-> confidence.n < 700]

\* RuleBasedInvoiceParser.validate
rule_validate(data) == [validator |-> "rule", low_confidence |-> FALSE]

\* Mutant: every result goes to the rule validator.
validate_rule_only(cfg, data) == rule_validate(data)

\* HybridInvoiceParser.validate
validate(cfg, data) ==
    LET extraction_method ==
            IF "_extraction_method" \in DOMAIN data
            THEN data["_extraction_method"].s ELSE "rule-based"
    IN  IF extraction_method \in {"llm", "llm-low-confidence"} /\ cfg.llm_parser
        THEN llm_validate(data)
        ELSE rule_validate(data)

\* parse, lines 56-59: the LLM extraction starts, or parse falls through to
\* the rule-based extractor.
parse_start ==
    /\ hp.stage = "start"
    /\ IF hp.cfg.use_llm_extraction /\ hp.cfg.llm_parser
       THEN /\ hp' = [hp EXCEPT !.stage = "llm"]
            /\ ex' = [NoExtract EXCEPT !.state = "running", !.attempt = 1]
       ELSE /\ hp' = [hp EXCEPT
                        !.stage = "parsed",
                        !.data = parse(hp.cfg, [raised |-> FALSE, data |-> NoDoc])]
            /\ ex' = ex
    /\ UNCHANGED <<storeVars, callVars, scanVars, hist, pushVars>>
    /\ UNCHANGED serviceVars

\* parse, lines 59-92: llm_parser.parse has returned or raised.
parse_finish ==
    /\ hp.stage = "llm"
    /\ ex.state \in {"returned", "raised"}
    /\ hp' = [hp EXCEPT
                !.stage = "parsed",
                !.data = parse(hp.cfg, [raised |-> ex.state = "raised",
                                        data |-> AIData(ex.confidence)])]
    /\ ex' = ex
    /\ UNCHANGED <<storeVars, callVars, scanVars, hist, pushVars>>
    /\ UNCHANGED serviceVars

\* extract_from_file, line 242: warnings = parser.validate(extracted_data)
parser_validate ==
    /\ hp.stage = "parsed"
    /\ hp' = [hp EXCEPT !.stage = "validated",
                        !.warnings = validate(hp.cfg, hp.data)]
    /\ ex' = ex
    /\ UNCHANGED <<storeVars, callVars, scanVars, hist, pushVars>>
    /\ UNCHANGED serviceVars

\* ------------------------------------------------- confidence scoring
\* The schemas of LLMFormParser, LLMEmailParser and LLMInvoiceParser, and the
\* schema of the extractor's unit test.
FormSchema ==
    {"client_name", "email", "phone", "company", "service_interest",
     "priority", "message", "date"}
EmailSchema ==
    {"client_name", "email", "phone", "company", "service_interest",
     "message", "date"}
InvoiceSchema ==
    {"invoice_number", "date", "client_name", "amount", "vat", "total_amount"}
UnitTestSchema == {"client_name", "email", "phone"}
SchemaNames == {"FORM", "EMAIL", "INVOICE", "unit_test"}
SchemaOf(name) ==
    CASE name = "FORM" -> FormSchema
      [] name = "EMAIL" -> EmailSchema
      [] name = "INVOICE" -> InvoiceSchema
      [] name = "unit_test" -> UnitTestSchema

\* Every key an extraction may hold.
DataFields == FormSchema \cup InvoiceSchema

RECURSIVE SumOver(_, _)
SumOver(f, S) ==
    IF S = {} THEN 0
    ELSE LET x == CHOOSE y \in S : TRUE IN f[x] + SumOver(f, S \ {x})

\* round(num / den, 0) of a non-negative quotient: the nearest integer; when
\* the quotient lies exactly between two integers, the binary representation
\* of the float decides, which `tie` stands for (0 down, 1 up).
Round3(num, den, tie) ==
    LET q == num \div den
        r == num % den
    IN  IF 2 * r < den THEN q
        ELSE IF 2 * r > den THEN q + 1
        ELSE q + tie

\* dict.get(key): the value, or None for a key the mapping lacks.
Get(data, key) == IF key \in DOMAIN data THEN data[key] ELSE Null

\* Mutant: confidence and completeness weigh the same.
extractor_calculate_confidence_mean(extracted_data, field_confidences, schema, tie) ==
    LET confidences ==
            {f \in schema \cap DOMAIN field_confidences :
                Get(extracted_data, f) # Null}
        invoice_fields == {"invoice_number", "amount", "vat", "total_amount"}
        has_invoice_data ==
            \E f \in invoice_fields : Get(extracted_data, f) # Null
        required_fields ==
            IF has_invoice_data
            THEN {f \in schema :
                    f \in invoice_fields \/ f = "date" \/ f = "client_name"}
            ELSE {f \in schema :
                    f \notin invoice_fields /\ f \notin {"priority", "message"}}
        p == Cardinality({f \in required_fields : Get(extracted_data, f) # Null})
        r == Cardinality(required_fields)
        n == Cardinality(confidences)
        S == SumOver(field_confidences, confidences)
    IN  IF DOMAIN field_confidences = {} THEN 0
        ELSE IF confidences = {} THEN 0
        ELSE IF r = 0 THEN Round3(S + 1000 * n, 2 * n, tie)
        ELSE Round3(S * r + 1000 * p * n, 2 * n * r, tie)

\* AIExtractor._calculate_confidence, in thousandths.  The mapping
\* _parse_llm_response returns has a confidence for every key it has a value
\* for, so without confidences there is no value either and the first branch
\* returns 0.
extractor_calculate_confidence(extracted_data, field_confidences, schema, tie) ==
    LET confidences ==
            {f \in schema \cap DOMAIN field_confidences :
                Get(extracted_data, f) # Null}
        optional_fields == {"priority", "message"}
        invoice_fields == {"invoice_number", "amount", "vat", "total_amount"}
        has_invoice_data ==
            \E f \in invoice_fields : Get(extracted_data, f) # Null
        required_fields ==
            IF has_invoice_data
            THEN {f \in schema :
                    f \in invoice_fields \/ f = "date" \/ f = "client_name"}
            ELSE {f \in schema :
                    f \notin invoice_fields /\ f \notin optional_fields}
        populated_required ==
            Cardinality({f \in required_fields : Get(extracted_data, f) # Null})
        r == Cardinality(required_fields)
        n == Cardinality(confidences)
        S == SumOver(field_confidences, confidences)
        non_null_fields ==
            Cardinality({k \in DOMAIN extracted_data : extracted_data[k] # Null})
        total_fields == Cardinality(schema)
    IN  IF DOMAIN field_confidences = {}
        THEN IF total_fields > 0
             THEN (1000 * non_null_fields) \div total_fields
             ELSE 0
        ELSE IF confidences = {} THEN 0
        \* avg_confidence * 0.7 + completeness * 0.3 with avg = S / n and
        \* completeness = populated_required / r (1.0 without required fields)
        ELSE IF r = 0 THEN Round3(7 * S + 3000 * n, 10 * n, tie)
        ELSE Round3(7 * S * r + 3000 * populated_required * n, 10 * n * r, tie)

\* The severities of the warnings a validator returned.
Count(warnings, severity) ==
    Cardinality({i \in 1..Len(warnings) : warnings[i] = severity})

\* Mutant: a field holding the empty string counts as present.
calculate_completeness_confidence_counts_empty(extracted_data, record_type) ==
    LET fields ==
            CASE record_type = "FORM" -> {"client_name", "email"}
              [] record_type = "EMAIL" -> {"client_name", "email", "message"}
              [] record_type = "INVOICE" ->
                    {"invoice_number", "amount", "vat", "total_amount"}
              [] OTHER -> {}
        present_count ==
            Cardinality({f \in fields : Get(extracted_data, f) # Null})
    IN  IF fields = {} THEN 500
        ELSE Round3(1000 * present_count, Cardinality(fields), 0)

\* ExtractionService._calculate_completeness_confidence, in thousandths.
calculate_completeness_confidence(extracted_data, record_type) ==
    LET fields ==
            CASE record_type = "FORM" -> {"client_name", "email"}
              [] record_type = "EMAIL" -> {"client_name", "email", "message"}
              [] record_type = "INVOICE" ->
                    {"invoice_number", "amount", "vat", "total_amount"}
              [] OTHER -> {}
        present_count ==
            Cardinality({f \in fields :
                Get(extracted_data, f) # Null /\ Get(extracted_data, f) # Str("")})
    IN  IF fields = {} THEN 500
        ELSE Round3(1000 * present_count, Cardinality(fields), 0)

\* Mutant: the penalties are subtracted and the result is not clamped.
calculate_confidence_unclamped(extracted_data, ai_confidence, warnings, record_type) ==
    LET confidence ==
            IF ai_confidence # Null THEN ai_confidence.n
            ELSE calculate_completeness_confidence(extracted_data, record_type)
    IN  confidence - Count(warnings, "error") * 150
                   - Count(warnings, "warning") * 50

\* ExtractionService._calculate_confidence, in thousandths.
calculate_confidence(extracted_data, ai_confidence, warnings, record_type) ==
    LET confidence ==
            IF ai_confidence # Null THEN ai_confidence.n
            ELSE calculate_completeness_confidence(extracted_data, record_type)
        error_count == Count(warnings, "error")
        warning_count == Count(warnings, "warning")
        penalised == confidence - error_count * 150 - warning_count * 50
        clamped == IF penalised < 0 THEN 0
                   ELSE IF penalised > 1000 THEN 1000 ELSE penalised
    IN  Round3(clamped, 1, 0)

\* pydantic's Optional[EmailStr]: None or an address; the empty string and a
\* text without an @-sign are refused.
EmailStr(v) == v = Null \/ v = Str("a@b.c")

\* The documents in play.  A field is null, the empty string or a text; the
\* three amounts of an invoice come together, as do the contact details.
Documents ==
    {[f \in DataFields |->
        CASE f = "client_name" -> name
          [] f = "email" -> email
          [] f = "message" -> message
          [] f = "invoice_number" -> number
          [] f = "date" -> date
          [] f \in {"amount", "vat", "total_amount"} -> amounts
          [] OTHER -> details] :
        name \in {Null, Str("a")},
        email \in {Null, Str(""), Str("a@b.c"), Str("invalid-email")},
        message \in {Null, Str("m")}, number \in {Null, Str("TF-1")},
        date \in {Null, Str("d")}, amounts \in {Null, Str("1")},
        details \in {Null, Str("x")}}

\* The confidences the model reports for the fields, in thousandths.
FieldConfidences ==
    {[f \in DataFields |->
        CASE f = "client_name" -> a
          [] f = "email" -> b
          [] OTHER -> c] :
        a \in {950, 900, 1200}, b \in {900, 0}, c \in {850, 900}}

Severities == {"error", "warning"}
WarningLists ==
    UNION {[1..n -> Severities] : n \in 0..MaxWarnings}

NoScore ==
    [stage |-> "idle", schema |-> "", record_type |-> "", data |-> NoDoc,
     field_confidences |-> NoDoc, ai_confidence |-> Null, warnings |-> <<>>,
     confidence |-> Null, record |-> NoDoc]

ScoreFrame == <<storeVars, callVars, scanVars, hist, pushVars, hp, ex, api,
                sheets, wr>>

\* An LLM parser's parse: extract_structured_data scores the response
\* (extractor.py line 70) and the parser stores the score as _confidence.
llm_parse(tie) ==
    /\ cf.stage = "input"
    /\ cf' = [cf EXCEPT
            !.stage = "parsed",
            !.ai_confidence =
                Num(extractor_calculate_confidence(
                        cf.data, cf.field_confidences, SchemaOf(cf.schema), tie))]
    /\ UNCHANGED ScoreFrame

\* A rule-based parser's parse: the data carry no _confidence.
rule_parse ==
    /\ cf.stage = "input"
    /\ cf.schema \in RecordType
    /\ cf' = [cf EXCEPT !.stage = "parsed", !.ai_confidence = Null]
    /\ UNCHANGED ScoreFrame

\* extract_from_file, lines 242-256: the validator's warnings and the final
\* confidence.
score(warnings) ==
    /\ cf.stage = "parsed"
    /\ cf' = [cf EXCEPT
            !.stage = "scored",
            !.warnings = warnings,
            !.confidence =
                Num(calculate_confidence(cf.data, cf.ai_confidence, warnings,
                                         cf.record_type))]
    /\ UNCHANGED ScoreFrame

\* extract_from_file, lines 259-278: the record is constructed, with a fresh
\* uuid4 as its id, and returned, and the frame is gone; pydantic raises
\* ValidationError when a value does not fit its field (the empty string is
\* no EmailStr).
build_record(id) ==
    /\ cf.stage = "scored"
    /\ LET data == [f \in {"id", "type", "source_file", "confidence",
                           "client_name", "invoice_number"} |->
                        CASE f = "id" -> Str(id)
                          [] f = "type" -> Str(cf.record_type)
                          [] f = "source_file" -> Str("/forms/f1.html")
                          [] f = "confidence" -> cf.confidence
                          [] OTHER -> Get(cf.data, f)]
       IN  IF Validates(data) /\ EmailStr(Get(cf.data, "email"))
           THEN cf' = [NoScore EXCEPT !.stage = "returned",
                                      !.record = ExtractionRecord(data)]
           ELSE cf' = [NoScore EXCEPT !.stage = "raised"]
    /\ UNCHANGED ScoreFrame

\* ---------------------------------------------------- review endpoints
\* A value Python takes for true: neither None nor the empty string.
Truthy(v) == v # Null /\ v # Str("")

\* GoogleSheetsClient.write_client_record and write_invoice_record: the sheet
\* the row goes to, or the ValueError raised for a record that does not fit.
write_client_record(record) ==
    IF record["type"].s \notin {"FORM", "EMAIL"} THEN "ValueError"
    ELSE "Clients"

write_invoice_record(record) ==
    IF record["type"].s # "INVOICE" /\ ~Truthy(record["invoice_number"])
    THEN "ValueError"
    ELSE "Invoices"

\* Mutant: approve looks at the invoice number only.
approve_write_record_by_number(record) ==
    IF Truthy(record["invoice_number"])
    THEN write_invoice_record(record)
    ELSE write_client_record(record)

\* approve_record, lines 181-184: the sheet is chosen by the record's data.
approve_write_record(record) ==
    IF record["type"].s = "INVOICE" \/ Truthy(record["invoice_number"])
    THEN write_invoice_record(record)
    ELSE write_client_record(record)

\* A request to /approve, /reject or /edit: where its handler stands, the
\* record get_by_id returned, what the sheet write did, the answer, and
\* (history) whether the handler found the id absent from the queue.
NoRequest ==
    [route |-> "none", stage |-> "idle", id |-> "", upd |-> NoDoc,
     record |-> NoDoc, write |-> "none", answer |-> "none", gone |-> FALSE]

\* The requests in flight and (history) the number of requests started, the
\* ids whose approval or rejection was answered with success, and the ids
\* a handler removed after another handler had removed them.
NoReview ==
    [req |-> [c \in Callers |-> NoRequest], n |-> 0,
     approved |-> {}, rejected |-> {}]

ReviewFrame == <<scanVars, pushVars, hp, ex, cf, wr>>

\* The lookup every handler starts with (lines 173-175, 231-233, 265-267):
\* 404 for an id get_by_id does not find.
handler_get(c, route, id, upd) ==
    /\ Idle(c)
    /\ api.req[c].stage = "idle"
    /\ api.n < MaxRequests
    /\ api' = [api EXCEPT
            !.n = @ + 1,
            !.req[c] =
                IF get_by_id(id) = NoDoc
                THEN [NoRequest EXCEPT !.route = route, !.id = id, !.upd = upd,
                                       !.stage = "answered", !.answer = "404",
                                       !.gone = TRUE]
                ELSE [NoRequest EXCEPT !.route = route, !.id = id, !.upd = upd,
                                       !.stage = IF route = "approve"
                                                 THEN "write" ELSE "call",
                                       !.record = get_by_id(id)]]
    /\ UNCHANGED <<storeVars, callVars, hist, sheets, ReviewFrame>>

approve_get(c, id) == handler_get(c, "approve", id, NoDoc)
reject_get(c, id) == handler_get(c, "reject", id, NoDoc)
edit_get(c, id, updates) == handler_get(c, "edit", id, updates)

\* approve_record, lines 180-184: the row is appended to the sheet, or the
\* write raises: the sink's ValueError, or the API's error after the retries.
approve_write(c, fails) ==
    /\ api.req[c].stage = "write"
    /\ LET sheet == approve_write_record(api.req[c].record) IN
       IF sheet = "ValueError" \/ fails
       THEN /\ api' = [api EXCEPT
                    !.req[c].stage = "answered",
                    !.req[c].write = IF sheet = "ValueError" THEN sheet
                                     ELSE "WriteError",
                    !.req[c].answer = "SheetFailure"]
            /\ sheets' = sheets
       ELSE /\ api' = [api EXCEPT !.req[c].stage = "call",
                                  !.req[c].write = "ok"]
            /\ sheets' = Append(sheets, [sheet |-> sheet, id |-> api.req[c].id])
    /\ UNCHANGED <<storeVars, callVars, hist, ReviewFrame>>

\* await queue_manager.remove(record_id), lines 187 and 236
approve_remove(c) ==
    /\ api.req[c].stage = "call"
    /\ api.req[c].route = "approve"
    /\ remove_exists(c, api.req[c].id)

reject_remove(c) ==
    /\ api.req[c].stage = "call"
    /\ api.req[c].route = "reject"
    /\ remove_exists(c, api.req[c].id)

\* await queue_manager.update(record_id, updates), line 270
edit_update(c) ==
    /\ api.req[c].stage = "call"
    /\ api.req[c].route = "edit"
    /\ update_get(c, api.req[c].id, api.req[c].upd)

\* The call of the queue has returned or raised and the handler answers.
handler_done(c, route, answer) ==
    /\ api.req[c].stage = "call"
    /\ api.req[c].route = route
    /\ pc[c] = "done"
    /\ api' = [api EXCEPT
            !.req[c].stage = "answered",
            !.req[c].answer = answer,
            !.req[c].gone = (res[c] = "NotFound"),
            !.approved = IF route = "approve" /\ res[c] = "ok"
                         THEN @ \cup {api.req[c].id} ELSE @,
            !.rejected = IF route = "reject" /\ res[c] = "ok"
                         THEN @ \cup {api.req[c].id} ELSE @]
    /\ pc' = [pc EXCEPT ![c] = "idle"]
    /\ arg' = [arg EXCEPT ![c] = NoArg]
    /\ res' = [res EXCEPT ![c] = "none"]
    /\ UNCHANGED <<storeVars, calls, hist, sheets, ReviewFrame>>

\* approve_record, lines 189-205: success, or the inner handler's answer for
\* whatever the try block raised, remove's KeyError included.
approve_done(c) ==
    handler_done(c, "approve",
                 IF res[c] = "ok" THEN "Success" ELSE "SheetFailure")

\* reject_record, lines 238-246, and edit_record, lines 272-284: success, or
\* 500 for whatever the call raised.
reject_done(c) ==
    handler_done(c, "reject", IF res[c] = "ok" THEN "Success" ELSE "500")

edit_done(c) ==
    handler_done(c, "edit", IF res[c] = "ok" THEN "Success" ELSE "500")

\* The client has the answer; the handler's frame is gone.
request_returns(c) ==
    /\ api.req[c].stage = "answered"
    /\ api' = [api EXCEPT !.req[c] = NoRequest]
    /\ UNCHANGED <<storeVars, callVars, hist, sheets, ReviewFrame>>

\* ------------------------------------- GoogleSheetsClient._write_to_sheet
MAX_RETRIES == 3
BASE_DELAY == 1

\* What a call of the gspread library can raise: an APIError with a status
\* among 429, 500, 502, 503, 504, an APIError with another status, another
\* GSpreadException, and any other exception.
SinkErrors == {"APIError429", "APIError400", "GSpreadException", "Exception"}

\* One call of _write_to_sheet: where it stands (idle, attempt, appended,
\* returned, raised), the attempt, the arguments, the seconds slept, the row
\* number returned, the exception raised, and (history) the number of rows
\* of the spreadsheet when the call began and the number of calls.
NoWrite ==
    [stage |-> "idle", attempt |-> 0, sheet |-> "", id |-> "", slept |-> 0,
     row |-> 0, raised |-> "none", before |-> 0, n |-> 0]

SheetFrame == <<storeVars, callVars, scanVars, hist, pushVars, hp, ex, cf,
                api>>

\* _retry_with_backoff, lines 220-275: the frame after the operation raised
\* in the attempt w.attempt: the next attempt after the backoff, or the
\* exception raised to the caller.
retry_with_backoff(w, kind) ==
    LET retry == [w EXCEPT !.stage = "attempt", !.attempt = @ + 1,
                           !.slept = @ + BASE_DELAY * Pow2(w.attempt - 1)]
        raise == [w EXCEPT !.stage = "raised", !.raised = kind]
    IN  CASE kind = "APIError429" ->
                IF w.attempt < MAX_RETRIES THEN retry ELSE raise
          [] kind = "APIError400" -> raise
          [] kind = "GSpreadException" ->
                IF w.attempt < MAX_RETRIES THEN retry ELSE raise
          [] OTHER -> raise

\* _write_to_sheet is called and the first attempt begins.
write_to_sheet(sheet, id) ==
    /\ wr.stage = "idle"
    /\ wr.n < MaxWrites
    /\ wr' = [NoWrite EXCEPT !.stage = "attempt", !.attempt = 1,
                             !.sheet = sheet, !.id = id,
                             !.before = Len(sheets), !.n = wr.n + 1]
    /\ sheets' = sheets
    /\ UNCHANGED SheetFrame

\* write_operation, lines 305-307: the worksheet is fetched and the row is
\* appended, or one of the calls raises; a request that ends in an error
\* may or may not have been carried out by the service.
append_row(err, applied) ==
    /\ wr.stage = "attempt"
    /\ IF err = "none"
       THEN /\ sheets' = Append(sheets, [sheet |-> wr.sheet, id |-> wr.id])
            /\ wr' = [wr EXCEPT !.stage = "appended"]
       ELSE /\ sheets' = IF applied
                         THEN Append(sheets, [sheet |-> wr.sheet, id |-> wr.id])
                         ELSE sheets
            /\ wr' = retry_with_backoff(wr, err)
    /\ UNCHANGED SheetFrame

\* write_operation, line 309: the rows of the worksheet, the header among
\* them, are read and counted, or the call raises.
get_all_values(err) ==
    /\ wr.stage = "appended"
    /\ IF err = "none"
       THEN wr' = [wr EXCEPT
                !.stage = "returned",
                !.row = 1 + Cardinality({k \in 1..Len(sheets) :
                                            sheets[k].sheet = wr.sheet})]
       ELSE wr' = retry_with_backoff(wr, err)
    /\ sheets' = sheets
    /\ UNCHANGED SheetFrame

\* The caller has the row number or the exception.
write_returns ==
    /\ wr.stage \in {"returned", "raised"}
    /\ wr' = [NoWrite EXCEPT !.n = wr.n]
    /\ sheets' = sheets
    /\ UNCHANGED SheetFrame

\* ------------------------------------------------------ specifications
AddInputs ==
    {MkRecord(id, "FORM", "manual.html", Num(850), Str(name)) :
        id \in Ids, name \in {"a", "b"}}

ConcurrentUpdates ==
    {[client_name |-> Str("c")], [confidence |-> Num(500)]}

\* Nothing is being scored, no request is in flight, the spreadsheet is
\* empty.
InitService ==
    /\ cf = NoScore
    /\ api = NoReview
    /\ sheets = <<>>
    /\ wr = NoWrite

InitQueue ==
    /\ records = <<>>
    /\ record_ids = {}
    /\ processed_files = {}
    /\ events = <<>>
    /\ pc = [c \in Callers |-> "idle"]
    /\ arg = [c \in Callers |-> NoArg]
    /\ res = [c \in Callers |-> "none"]
    /\ calls = 0
    /\ spc = [s \in Scans |-> "idle"]
    /\ sc = [s \in Scans |-> NoLocals]
    /\ scans = 0
    /\ sh = [s \in Scans |-> NoHistory]
    /\ hist = [addOk |-> [i \in Ids |-> 0], dels |-> [i \in Ids |-> 0],
               fileAdds |-> [f \in FileSet |-> 0], pfCleared |-> FALSE]
    /\ subs = [s \in Subscribers |-> NoSubscription]
    /\ ws = NoBroadcast

Init ==
    /\ InitQueue
    /\ hp = NoParse
    /\ ex = NoExtract
    /\ InitService

\* Concurrent callers of the queue's API.
Next ==
    \E c \in Callers :
        \/ \E rec \in AddInputs : add_exists(c, rec)
        \/ add_pipe(c)
        \/ add_pub(c)
        \/ \E id \in Ids : remove_exists(c, id)
        \/ remove_pipe(c)
        \/ remove_pub(c)
        \/ \E id \in Ids, u \in ConcurrentUpdates : update_get(c, id, u)
        \/ update_set(c)
        \/ update_pub(c)
        \/ clear_smembers(c)
        \/ clear_pipe(c)
        \/ clear_delete(c)
        \/ return(c)

Spec == Init /\ [][Next]_vars

\* Scans, overlapping or one after the other, and the administrative
\* clear_processed_files.
Reviewer == "c1"

NextScan ==
    \/ \E s \in Scans :
        \/ spc[s] = "idle" /\ scan_start(s)
        \/ \E up \in BOOLEAN : discover(s, up)
        \/ \E id \in Ids : extract_ok(s, id)
        \/ \E kind \in {"Timeout", "Error"} : extract_fails(s, kind)
        \/ scan_add_exists(s)
        \/ scan_add_pipe(s)
        \/ scan_add_pub(s)
        \/ \E up \in BOOLEAN : scan_mark(s, up)
    \/ calls < MaxReviews /\ clear_processed_files(Reviewer)
    \/ return(Reviewer)

SpecScan == Init /\ [][NextScan]_vars

\* One scan after the other, beside a reviewer who removes, edits and clears
\* records and clears the processed-file tracking.
Rescanner == "s1"

NextRescan ==
    \/ scan_start(Rescanner)
    \/ \E up \in BOOLEAN : discover(Rescanner, up)
    \/ \E id \in Ids : extract_ok(Rescanner, id)
    \/ \E kind \in {"Timeout", "Error"} : extract_fails(Rescanner, kind)
    \/ scan_add_exists(Rescanner)
    \/ scan_add_pipe(Rescanner)
    \/ scan_add_pub(Rescanner)
    \/ \E up \in BOOLEAN : scan_mark(Rescanner, up)
    \/ \E id \in Ids : calls < MaxReviews /\ remove_exists(Reviewer, id)
    \/ remove_pipe(Reviewer)
    \/ remove_pub(Reviewer)
    \/ \E id \in Ids : calls < MaxReviews /\ update_get(Reviewer, id, [client_name |-> Str("c")])
    \/ update_set(Reviewer)
    \/ update_pub(Reviewer)
    \/ calls < MaxReviews /\ clear_smembers(Reviewer)
    \/ clear_pipe(Reviewer)
    \/ clear_delete(Reviewer)
    \/ calls < MaxReviews /\ clear_processed_files(Reviewer)
    \/ return(Reviewer)

SpecRescan == Init /\ [][NextRescan]_vars

\* One caller of the queue's API, one call after the other.
SeqCaller == "c1"

SeqAdds ==
    {MkRecord(id, type, "manual.html", conf, Str("a")) :
        id \in Ids, type \in {"FORM", "INVOICE"}, conf \in {Null, Num(850)}}

SeqUpdates ==
    {[client_name |-> Str("c")],
     [confidence |-> Num(500)],
     [confidence |-> NumStr(500)],
     [confidence |-> Num(1500)],
     [client_name |-> Num(7)],
     [note |-> Str("x")],
     [client_name |-> Null, status |-> Str("approved")]}

NextSeq ==
    \/ \E rec \in SeqAdds : add_exists(SeqCaller, rec)
    \/ add_pipe(SeqCaller)
    \/ add_pub(SeqCaller)
    \/ \E id \in Ids : remove_exists(SeqCaller, id)
    \/ remove_pipe(SeqCaller)
    \/ remove_pub(SeqCaller)
    \/ \E id \in Ids, u \in SeqUpdates : update_get(SeqCaller, id, u)
    \/ update_set(SeqCaller)
    \/ update_pub(SeqCaller)
    \/ clear_smembers(SeqCaller)
    \/ clear_pipe(SeqCaller)
    \/ clear_delete(SeqCaller)
    \/ clear_processed_files(SeqCaller)
    \/ \E f \in FileSet : mark_file_processed(SeqCaller, f)
    \/ return(SeqCaller)

SpecSeq == Init /\ [][NextSeq]_vars

\* One publisher beside the WebSocket listeners and the broadcast task.
PushAdds == {MkRecord(id, "FORM", "manual.html", Num(850), Str("a")) : id \in Ids}

\* The listeners' side is explored with the events of one record.
PushId == "r1"

NextPush ==
    \/ \E rec \in PushAdds :
        /\ rec["id"].s = PushId
        /\ calls < MaxPublishes
        /\ add_exists(SeqCaller, rec)
    \/ add_pipe(SeqCaller)
    \/ add_pub(SeqCaller)
    \/ \E id \in {PushId} : calls < MaxPublishes /\ remove_exists(SeqCaller, id)
    \/ remove_pipe(SeqCaller)
    \/ remove_pub(SeqCaller)
    \/ \E id \in {PushId} :
        calls < MaxPublishes
            /\ update_get(SeqCaller, id, [client_name |-> Str("c")])
    \/ update_set(SeqCaller)
    \/ update_pub(SeqCaller)
    \/ return(SeqCaller)
    \/ \E w \in Conns : ws_connect(w)
    \/ \E w \in Conns : ws_disconnect(w)
    \/ \E w \in Conns : ws_break(w)
    \/ start_broadcasting
    \/ stop_broadcasting
    \/ loop_subscribe
    \/ loop_event
    \/ loop_send

SpecPush == Init /\ [][NextPush]_vars

\* One publisher beside two subscriptions of the channel: a consumer of
\* subscribe_to_events and the broadcast task, with no listener connected.
NextSub ==
    \/ \E rec \in PushAdds : add_exists(SeqCaller, rec)
    \/ add_pipe(SeqCaller)
    \/ add_pub(SeqCaller)
    \/ \E id \in Ids : remove_exists(SeqCaller, id)
    \/ remove_pipe(SeqCaller)
    \/ remove_pub(SeqCaller)
    \/ \E id \in Ids : update_get(SeqCaller, id, [client_name |-> Str("c")])
    \/ update_set(SeqCaller)
    \/ update_pub(SeqCaller)
    \/ return(SeqCaller)
    \/ \E s \in Subscribers : sub_subscribe(s)
    \/ \E s \in Subscribers : sub_listen(s)
    \/ start_broadcasting
    \/ stop_broadcasting
    \/ loop_subscribe
    \/ loop_event

SpecSub == Init /\ [][NextSub]_vars

\* One document through the hybrid parser, for every configuration and
\* every outcome of the AI extraction.
InitParse ==
    /\ InitQueue
    /\ ex = NoExtract
    /\ InitService
    /\ hp \in {[NoParse EXCEPT !.stage = "start", !.cfg = c] : c \in Configs}

NextParse ==
    \/ parse_start
    \/ \E conf \in AIConfidences : call_llm_ok(conf)
    \/ \E kind \in Failures : call_llm_fails(kind)
    \/ parse_finish
    \/ parser_validate

SpecParse == InitParse /\ [][NextParse]_vars

\* One document through extract_from_file, for every schema, document and
\* set of field confidences (SpecScoring), and then the record in the queue
\* (SpecScore).
ScoreInputs ==
    (Documents \X FieldConfidences) \cup {<<NoDoc, NoDoc>>}

ConfidenceUpdates ==
    {[confidence |-> Num(1500)],
     [confidence |-> Num(-1)],
     [confidence |-> Num(1000)]}

InitScore ==
    /\ InitQueue
    /\ hp = NoParse
    /\ ex = NoExtract
    /\ api = NoReview
    /\ sheets = <<>>
    /\ wr = NoWrite
    /\ cf \in {[NoScore EXCEPT
                    !.stage = "input",
                    !.schema = name,
                    !.record_type = IF name = "unit_test" THEN "FORM" ELSE name,
                    !.data = in[1],
                    !.field_confidences = in[2]] :
                name \in SchemaNames, in \in ScoreInputs}

NextScoring ==
    \/ \E tie \in {0, 1} : llm_parse(tie)
    \/ rule_parse
    \/ \E warnings \in WarningLists : score(warnings)
    \/ \E id \in Ids : build_record(id)

SpecScoring == InitScore /\ [][NextScoring]_vars

NextScore ==
    \/ \E tie \in {0, 1} : llm_parse(tie)
    \/ rule_parse
    \/ \E warnings \in WarningLists : score(warnings)
    \/ \E id \in Ids : build_record(id)
    \/ cf.stage = "returned" /\ add_exists(SeqCaller, cf.record)
    \/ add_pipe(SeqCaller)
    \/ add_pub(SeqCaller)
    \/ /\ cf.stage = "returned"
       /\ \E u \in ConfidenceUpdates :
            update_get(SeqCaller, cf.record["id"].s, u)
    \/ update_set(SeqCaller)
    \/ update_pub(SeqCaller)
    \/ return(SeqCaller)

SpecScore == InitScore /\ [][NextScore]_vars

\* The review endpoints, called concurrently, on a queue that a record is
\* added to; an id is a fresh uuid4, so no second add of it follows.
ReviewId == "r1"
ReviewAdds ==
    {MkRecord(ReviewId, "FORM", "/forms/f1.html", Num(850), Str("a")),
     DictSet(MkRecord(ReviewId, "EMAIL", "/emails/e1.eml", Num(850), Str("a")),
             "invoice_number", Str("TF-1")),
     MkRecord(ReviewId, "INVOICE", "/invoices/i1.html", Num(850), Str("a"))}
ReviewUpdates ==
    {[client_name |-> Str("c")], [invoice_number |-> Str("")]}

NextReview ==
    \E c \in Callers :
        \/ /\ api.req[c].stage = "idle"
           /\ hist.addOk[ReviewId] = 0
           /\ \A d \in Callers : arg[d].op # "add"
           /\ \E rec \in ReviewAdds : add_exists(c, rec)
        \/ add_pipe(c)
        \/ add_pub(c)
        \/ api.req[c].stage = "idle" /\ return(c)
        \/ approve_get(c, ReviewId)
        \/ \E fails \in BOOLEAN : approve_write(c, fails)
        \/ approve_remove(c)
        \/ approve_done(c)
        \/ reject_get(c, ReviewId)
        \/ reject_remove(c)
        \/ reject_done(c)
        \/ \E u \in ReviewUpdates : edit_get(c, ReviewId, u)
        \/ edit_update(c)
        \/ edit_done(c)
        \/ remove_pipe(c)
        \/ remove_pub(c)
        \/ update_set(c)
        \/ update_pub(c)
        \/ request_returns(c)

SpecReview == Init /\ [][NextReview]_vars

\* One caller that adds records and edits them, the identity fields included.
IdentityUpdates ==
    {[client_name |-> Str("c")],
     [id |-> Str("r2")],
     [type |-> Str("INVOICE")],
     [source_file |-> Str("other.html")],
     [extraction_timestamp |-> Str("t9")]}

NextEdit ==
    \/ \E rec \in SeqAdds : add_exists(SeqCaller, rec)
    \/ add_pipe(SeqCaller)
    \/ add_pub(SeqCaller)
    \/ \E id \in Ids, u \in IdentityUpdates : update_get(SeqCaller, id, u)
    \/ update_set(SeqCaller)
    \/ update_pub(SeqCaller)
    \/ return(SeqCaller)

SpecEdit == Init /\ [][NextEdit]_vars

\* ------------------------------------------------------------- properties
Range(seq) == {seq[i] : i \in 1..Len(seq)}

\* C1 (as claimed): of the add calls that carry one id, on a queue where the
\* id's record was never deleted, at most one returns successfully - every
\* other one must have raised Conflict.
C1_OneAddPerIdSucceeds ==
    \A id \in Ids : hist.dels[id] = 0 => hist.addOk[id] <= 1

\* C2 (as claimed): an id is in the index queue:record_ids if and only if a
\* record is stored under its key.
C2_IndexIffRecord == record_ids = DOMAIN records

\* C3: a scan marks a file processed only after its add of that file's
\* record has returned; a file whose extraction, timeout or add failed is not
\* marked; and every processed path has had a record added to the queue.
C3_MarkedOnlyAfterAdd ==
    /\ \A s \in Scans :
        /\ sh[s].marked \subseteq sh[s].added
        /\ sh[s].marked \cap sh[s].failed = {}
    /\ processed_files \subseteq UNION {sh[s].marked : s \in Scans}
    /\ \A f \in processed_files : hist.fileAdds[f] >= 1

C3_Witness ==
    \E s \in Scans :
        /\ spc[s] = "done"
        /\ sh[s].marked # {}
        /\ sh[s].failed # {}
        /\ sh[s].marked \subseteq processed_files

\* C4 (as claimed): until clear_processed_files is called, each source file
\* gives rise to at most one record added to the queue.
C4_AtMostOneAddPerFile ==
    ~hist.pfCleared => \A f \in FileSet : hist.fileAdds[f] <= 1

\* C5: without a clear_processed_files call, a file that was marked processed
\* when a scan started is still marked, is not returned by that scan's
\* discovery and is not extracted by it, whatever records were removed,
\* updated or cleared in between.
C5_RescanSkipsProcessed ==
    ~hist.pfCleared =>
        \A s \in Scans :
            /\ sh[s].startMarked \subseteq processed_files
            /\ sh[s].marked \subseteq processed_files
            /\ sh[s].startMarked \cap Range(sc[s].files) = {}
            /\ sh[s].startMarked \cap Range(sh[s].visited) = {}

C5_Witness ==
    /\ ~hist.pfCleared
    /\ \E id \in Ids : hist.dels[id] > 0
    /\ \E s \in Scans :
        /\ spc[s] = "done"
        /\ sh[s].startMarked # {}
        /\ sh[s].visited # <<>>

\* C6: a scan raises only in its discovery stage; a scan that returns has
\* visited every discovered file in order, counts one failure and one error
\* message per failing file, and has added and marked every other file.
C6_ScanSurvivesFileFailures ==
    \A s \in Scans :
        /\ spc[s] = "raised" => sh[s].visited = <<>> /\ sh[s].failed = {}
        /\ spc[s] = "done" =>
            /\ sh[s].visited = sc[s].files
            /\ sc[s].failed_count = Cardinality(sh[s].failed)
            /\ Len(sc[s].errors) = sc[s].failed_count
            /\ {e[2] : e \in Range(sc[s].errors)} = sh[s].failed
            /\ \A f \in Range(sc[s].files) \ sh[s].failed :
                    f \in sh[s].added /\ f \in sh[s].marked

C6_Witness ==
    \E s \in Scans :
        /\ spc[s] = "done"
        /\ sc[s].failed_count >= 1
        /\ sc[s].new_items_count >= 1
        /\ sc[s].processed_count >= 1
        /\ sc[s].errors[1][2] = sc[s].files[1]

\* C7: a file whose extraction timed out in a scan is neither added nor
\* marked by that scan, is counted as failed with a Timeout message, does not
\* stop the scan from visiting every file, stays unprocessed unless another
\* scan marks it, and is discovered by the other scan.
C7_TimeoutLeavesFileForRetry ==
    \A s \in Scans : \A f \in sh[s].timedout :
        /\ f \notin sh[s].added
        /\ f \notin sh[s].marked
        /\ f \in sh[s].failed
        /\ <<"Timeout", f>> \in Range(sc[s].errors)
        /\ spc[s] \in {"extract", "add_exists", "add_pipe", "add_pub", "mark", "done"}
        /\ spc[s] = "done" => sh[s].visited = sc[s].files
        /\ f \in processed_files => \E t \in Scans \ {s} : f \in sh[t].marked
        /\ \A t \in Scans \ {s} :
            spc[t] \in {"extract", "add_exists", "add_pipe", "add_pub", "mark", "done"}
                => f \in Range(sc[t].files)

C7_Witness ==
    \E s \in Scans : \E t \in Scans \ {s} :
        /\ spc[s] = "done"
        /\ sc[s].files[1] \in sh[s].timedout
        /\ Len(sc[s].files) = 2
        /\ sc[s].files[2] \in sh[s].marked
        /\ sh[t].startMarked = {sc[s].files[2]}
        /\ spc[t] = "done"
        /\ sc[t].files = <<sc[s].files[1]>>

\* The call of the sequential caller that has just returned or raised.
Returned(op) == pc[SeqCaller] = "done" /\ arg[SeqCaller].op = op
Unchanged(snap) ==
    /\ records = snap.records
    /\ record_ids = snap.record_ids
    /\ processed_files = snap.processed_files
    /\ Len(events) = snap.nevents
OneEvent(snap, ev) ==
    /\ Len(events) = snap.nevents + 1
    /\ events[Len(events)] = ev

\* C8: add of an id the queue holds raises Conflict and changes nothing; add
\* of an absent id stores the record so that get_by_id returns it, raises
\* get_count by one and publishes one record_added event with the record's id,
\* type and confidence.
C8_AddContract ==
    Returned("add") =>
        LET a == arg[SeqCaller] IN
        IF a.id \in DOMAIN a.pre.records
        THEN res[SeqCaller] = "Conflict" /\ Unchanged(a.pre)
        ELSE /\ res[SeqCaller] = "ok"
             /\ get_by_id(a.id) = a.rec
             /\ get_count = Cardinality(a.pre.record_ids) + 1
             /\ OneEvent(a.pre, Event("record_added", a.id, a.rec["type"],
                                      a.rec["confidence"], {}))
             /\ \A i \in DOMAIN a.pre.records : records[i] = a.pre.records[i]
             /\ processed_files = a.pre.processed_files

C8_Witness ==
    /\ Returned("add")
    /\ res[SeqCaller] = "Conflict"
    /\ \E k \in 1..Len(events) :
        events[k].type = "record_added" /\ events[k].record_id = arg[SeqCaller].id

\* C9: remove of an absent id raises NotFound and changes nothing; remove of a
\* stored record makes get_by_id return absent, lowers get_count by one and
\* publishes one record_removed event with the id.
C9_RemoveContract ==
    Returned("remove") =>
        LET a == arg[SeqCaller] IN
        IF a.id \notin DOMAIN a.pre.records
        THEN res[SeqCaller] = "NotFound" /\ Unchanged(a.pre)
        ELSE /\ res[SeqCaller] = "ok"
             /\ get_by_id(a.id) = NoDoc
             /\ get_count = Cardinality(a.pre.record_ids) - 1
             /\ OneEvent(a.pre, Event("record_removed", a.id, Null, Null, {}))
             /\ \A i \in DOMAIN a.pre.records \ {a.id} :
                    Exists(i) /\ records[i] = a.pre.records[i]
             /\ processed_files = a.pre.processed_files

C9_Witness ==
    /\ Returned("remove")
    /\ res[SeqCaller] = "ok"
    /\ arg[SeqCaller].pre.nevents = 1
    /\ events[1].type = "record_added"
    /\ events[1].record_id = arg[SeqCaller].id
    /\ Len(events) = 2

\* What update leaves unchanged when it succeeds: every other record, the id
\* index and the processed-file set.
UpdateFrame(a) ==
    /\ DOMAIN records = DOMAIN a.pre.records
    /\ \A i \in DOMAIN records \ {a.id} : records[i] = a.pre.records[i]
    /\ record_ids = a.pre.record_ids
    /\ processed_files = a.pre.processed_files
    /\ a.rec = records[a.id]
    /\ OneEvent(a.pre, Event("record_updated", a.id, Null, Null, DOMAIN a.upd))

\* C10 (as claimed): update of an absent id raises NotFound and changes
\* nothing; update of a stored record succeeds and stores the previous record
\* with exactly the provided fields replaced by the provided values.
C10_UpdateAlwaysMerges ==
    Returned("update") =>
        LET a == arg[SeqCaller] IN
        IF a.id \notin DOMAIN a.pre.records
        THEN res[SeqCaller] = "NotFound" /\ Unchanged(a.pre)
        ELSE /\ res[SeqCaller] = "ok"
             /\ \A f \in Fields :
                    records[a.id][f] = IF f \in DOMAIN a.upd THEN a.upd[f]
                                       ELSE a.pre.records[a.id][f]
             /\ UpdateFrame(a)

\* C10 (amended): update of an absent id raises NotFound and changes nothing;
\* update of a stored record whose merged fields fail the record's validation
\* raises a validation error and changes nothing; otherwise the stored record
\* is the previous one with exactly the provided fields replaced by their
\* validated values, keys that are no field being ignored, and the index, the
\* other records and the processed-file set are unchanged, the returned record
\* is the stored one and one record_updated event lists the provided keys.
C10_UpdateContract ==
    Returned("update") =>
        LET a == arg[SeqCaller]
            fits == \A f \in Fields \cap DOMAIN a.upd : FieldOk(f, a.upd[f])
        IN
        IF a.id \notin DOMAIN a.pre.records
        THEN res[SeqCaller] = "NotFound" /\ Unchanged(a.pre)
        ELSE IF ~fits
        THEN res[SeqCaller] = "ValidationError" /\ Unchanged(a.pre)
        ELSE /\ res[SeqCaller] = "ok"
             /\ DOMAIN records[a.id] = Fields
             /\ \A f \in Fields :
                    records[a.id][f] =
                        IF f \in DOMAIN a.upd THEN FieldValue(f, a.upd[f])
                        ELSE a.pre.records[a.id][f]
             /\ UpdateFrame(a)

C10_Witness ==
    /\ Returned("update")
    /\ res[SeqCaller] = "ok"
    /\ processed_files # {}
    /\ records[arg[SeqCaller].id] # arg[SeqCaller].pre.records[arg[SeqCaller].id]

\* C11 (as claimed): when two concurrent update calls on one stored id that
\* set disjoint fields have both returned, the stored record carries the new
\* values of both.
C11_NoLostUpdate ==
    \A c \in Callers : \A d \in Callers \ {c} :
        (/\ pc[c] = "done" /\ pc[d] = "done"
         /\ arg[c].op = "update" /\ arg[d].op = "update"
         /\ res[c] = "ok" /\ res[d] = "ok"
         /\ arg[c].id = arg[d].id
         /\ DOMAIN arg[c].upd \cap DOMAIN arg[d].upd = {}
         /\ Exists(arg[c].id))
        => \A f \in DOMAIN arg[c].upd :
                records[arg[c].id][f] = FieldValue(f, arg[c].upd[f])

\* C12 (as claimed): events are published in the order in which their
\* operations took effect on the store.  A record is stored by an add before
\* any update or remove can act on it, so every record_updated or
\* record_removed event of an id comes after a record_added event of that id.
C12_EventsInStoreOrder ==
    \A k \in 1..Len(events) :
        events[k].type \in {"record_updated", "record_removed"} =>
            \E j \in 1..(k - 1) :
                /\ events[j].type = "record_added"
                /\ events[j].record_id = events[k].record_id

\* C13: every subscription holds, in emission order and each once, exactly
\* the events published since it took effect - yielded already or waiting to
\* be yielded - whatever the other subscribers have consumed.
C13_FanOut ==
    \A s \in Subscribers :
        subs[s].state = "subscribed" =>
            subs[s].got \o subs[s].inbox =
                SubSeq(events, subs[s].from + 1, Len(events))

C13_Witness ==
    /\ subs["t"].state = "subscribed"
    /\ subs[Broadcaster].state = "subscribed"
    /\ Len(subs["t"].got) = 2
    /\ subs["t"].from = 0
    /\ subs["t"].got = SubSeq(events, 1, 2)
    /\ Len(subs[Broadcaster].got) = 1
    /\ subs[Broadcaster].inbox = <<events[2]>>

\* C14: a publisher's step is never held up by a subscriber or listener: in
\* every state the next store command or publish of a call in progress can
\* be taken, whatever is waiting in the subscriptions and whatever the
\* broadcast task is doing.
C14_PublisherNeverBlocked ==
    \A c \in Callers :
        /\ pc[c] = "add_pipe" => ENABLED add_pipe(c)
        /\ pc[c] = "add_pub" => ENABLED add_pub(c)
        /\ pc[c] = "remove_pipe" => ENABLED remove_pipe(c)
        /\ pc[c] = "remove_pub" => ENABLED remove_pub(c)
        /\ pc[c] = "update_set" => ENABLED update_set(c)
        /\ pc[c] = "update_pub" => ENABLED update_pub(c)

C14_Witness ==
    /\ pc[SeqCaller] \in {"add_pub", "remove_pub", "update_pub"}
    /\ Len(events) = 1
    /\ subs[Broadcaster].got = events
    /\ ws.task = "sending"
    /\ ws.todo # {}
    /\ ws.sent = [w \in Conns |-> <<>>]

\* C15 (as claimed): a broadcast call that has started sending returns
\* without raising; when it returns every connection that was registered has
\* been sent the message or has failed, exactly the failed ones have been
\* removed and every other one is still registered.
C15_BroadcastReachesAll ==
    [][(ws.task = "sending" /\ ws'.task \notin {"sending", "cancelled"}) =>
        LET failed == Sent(ws.cur).disconnected IN
        /\ ws'.task = "listening"
        /\ \A w \in ws.active \ failed :
            /\ ws'.sent[w] # <<>>
            /\ ws'.sent[w][Len(ws'.sent[w])] = ws.msg
        /\ ws'.active = ws.active \ failed]_vars

\* C16 (as claimed): once started and until stopped, the broadcast loop does
\* not terminate, whatever listeners connect, disconnect or fail.
C16_LoopSurvivesListeners == ws.stopped \/ ws.task # "ended"

\* The state a finished parse ended in.
Method == hp.data["_extraction_method"].s
Parsed == hp.stage \in {"parsed", "validated"}
AIRan == hp.cfg.use_llm_extraction /\ hp.cfg.llm_parser

\* C17: a finished parse is in the one state that configuration and AI
\* outcome determine: rule-based when AI extraction is disabled or
\* unavailable, when it raised, or when its confidence is below the threshold
\* with fallback enabled; llm when the confidence reaches the threshold;
\* llm-low-confidence when it is below with fallback disabled.
C17_ParseState ==
    Parsed =>
        /\ AIRan <=> ex.state \in {"returned", "raised"}
        /\ Method =
            IF ~AIRan \/ ex.state = "raised" THEN "rule-based"
            ELSE IF ex.confidence.n >= hp.cfg.llm_confidence_threshold
            THEN "llm"
            ELSE IF hp.cfg.llm_fallback_to_rules THEN "rule-based"
            ELSE "llm-low-confidence"

C17_Witness ==
    /\ hp.stage = "parsed"
    /\ ex.state = "raised"
    /\ ~hp.cfg.llm_fallback_to_rules
    /\ Method = "rule-based"

\* C18: the fields of a result come from one extractor: in state rule-based
\* they are the rule-based extractor's and the confidence is absent, also
\* when an AI attempt returned values; in the llm states fields and
\* confidence are the AI extractor's.
C18_OneExtractor ==
    Parsed =>
        LET source == IF Method = "rule-based"
                      THEN DictSet(RuleData, "_confidence", Null)
                      ELSE AIData(ex.confidence)
        IN  /\ DOMAIN hp.data = DOMAIN source \cup {"_extraction_method"}
            /\ \A k \in DOMAIN source : hp.data[k] = source[k]
            /\ Method # "rule-based" => ex.state = "returned"

C18_Witness ==
    /\ hp.stage = "parsed"
    /\ Method = "rule-based"
    /\ ex.state = "returned"
    /\ ex.confidence = Num(500)
    /\ hp.cfg.llm_confidence_threshold = 700
    /\ hp.cfg.llm_fallback_to_rules

\* C19: the warnings of a validated result come from the AI validator
\* exactly when its state is llm or llm-low-confidence, and from the rule
\* validator when it is rule-based.
C19_ValidatorOfExtractor ==
    hp.stage = "validated" =>
        /\ hp.warnings.validator \in {"llm", "rule"}
        /\ hp.warnings.validator = "llm" <=>
                Method \in {"llm", "llm-low-confidence"}
        /\ hp.warnings.validator = "rule" <=> Method = "rule-based"

C19_Witness ==
    /\ hp.stage = "validated"
    /\ Method = "llm-low-confidence"
    /\ hp.warnings = [validator |-> "llm", low_confidence |-> TRUE]

\* C20: one extraction makes at most max_retries LLM calls; it returns on the
\* first success; after failed attempt k < max_retries it has slept
\* base_delay * 2^(k-1) seconds; after the last failed attempt it raises the
\* cause without sleeping again, having made 3 calls and slept 1 s and 2 s.
C20_RetryBudget ==
    /\ ex.calls <= max_retries
    /\ ex.calls = Len(ex.failures) + (IF ex.state = "returned" THEN 1 ELSE 0)
    /\ Len(ex.waits) = IF ex.state = "raised" THEN max_retries - 1
                        ELSE Len(ex.failures)
    /\ \A k \in 1..Len(ex.waits) : ex.waits[k] = base_delay * 2^(k - 1)
    /\ ex.state = "running" => Len(ex.failures) < max_retries
    /\ ex.state = "raised" =>
        /\ ex.calls = 3
        /\ ex.waits = <<1, 2>>
        /\ ex.cause = ex.failures[max_retries]

C20_Witness ==
    /\ ex.state = "raised"
    /\ ex.calls = 3
    /\ ex.failures = <<"RateLimitError", "JSONDecodeError", "APITimeoutError">>
    /\ ex.cause = "APITimeoutError"

\* ------------------------------------------------- confidence properties
Clamp(x) == IF x < 0 THEN 0 ELSE IF x > 1000 THEN 1000 ELSE x
Abs(x) == IF x < 0 THEN -x ELSE x
Penalty(warnings) ==
    150 * Count(warnings, "error") + 50 * Count(warnings, "warning")

\* C21: with a confidence reported by the extractor, the final confidence is
\* that confidence minus 0.15 per error and 0.05 per warning, clamped to
\* [0, 1] and rounded to three decimals; one more error lowers a result that
\* stays within the range by exactly 0.15 and one more warning by 0.05, and a
\* reported 0.9 gives 0.9 without warnings, 0.75 with one error and 0.85 with
\* one warning.
C21_FinalConfidence ==
    (cf.stage = "scored" /\ cf.ai_confidence # Null) =>
        LET base == cf.ai_confidence.n
            with(severity) ==
                calculate_confidence(cf.data, cf.ai_confidence,
                                     Append(cf.warnings, severity),
                                     cf.record_type)
        IN  /\ cf.confidence = Num(Clamp(base - Penalty(cf.warnings)))
            /\ base - Penalty(cf.warnings) \in 150..1000 =>
                    with("error") = cf.confidence.n - 150
            /\ base - Penalty(cf.warnings) \in 50..1000 =>
                    with("warning") = cf.confidence.n - 50
            /\ base = 900 =>
                    /\ cf.warnings = <<>> => cf.confidence = Num(900)
                    /\ cf.warnings = <<"error">> => cf.confidence = Num(750)
                    /\ cf.warnings = <<"warning">> => cf.confidence = Num(850)

C21_Witness ==
    /\ cf.stage = "scored"
    /\ cf.ai_confidence = Num(900)
    /\ cf.warnings = <<"error">>
    /\ cf.confidence = Num(750)

InRange(v) == v = Null \/ (v.k = "num" /\ v.n >= 0 /\ v.n <= 1000)

\* C22: the record extract_from_file builds and every record the queue
\* stores have a confidence that is absent or within [0, 1]; an update of a
\* stored record that gives a confidence outside the range raises, leaves the
\* store unchanged and publishes nothing.
C22_ConfidenceInRange ==
    /\ cf.stage = "returned" => InRange(cf.record["confidence"])
    /\ \A id \in DOMAIN records : InRange(records[id]["confidence"])
    /\ Returned("update") =>
        LET a == arg[SeqCaller] IN
        (/\ a.id \in DOMAIN a.pre.records
         /\ "confidence" \in DOMAIN a.upd
         /\ a.upd["confidence"].k \in {"num", "numstr"}
         /\ (a.upd["confidence"].n < 0 \/ a.upd["confidence"].n > 1000))
        => (res[SeqCaller] = "ValidationError" /\ Unchanged(a.pre))

C22_Witness ==
    /\ Returned("update")
    /\ res[SeqCaller] = "ValidationError"
    /\ arg[SeqCaller].upd = [confidence |-> Num(1500)]
    /\ cf.stage = "returned"
    /\ Exists(arg[SeqCaller].id)
    /\ records[arg[SeqCaller].id] = model_dump_json(cf.record)

\* The required fields of the completeness estimate, by record type.
RequiredOf(record_type) ==
    CASE record_type = "FORM" -> {"client_name", "email"}
      [] record_type = "EMAIL" -> {"client_name", "email", "message"}
      [] record_type = "INVOICE" ->
            {"invoice_number", "amount", "vat", "total_amount"}

\* C23: without a confidence from the extractor the base of the final
\* confidence is the fraction of the record type's required fields that are
\* populated, a field being populated when it is neither null nor the empty
\* string (the base is the nearest thousandth of the fraction).
C23_CompletenessBase ==
    (cf.stage = "scored" /\ cf.ai_confidence = Null) =>
        LET required == RequiredOf(cf.record_type)
            populated ==
                {f \in required :
                    Get(cf.data, f) # Null /\ Get(cf.data, f) # Str("")}
            r == Cardinality(required)
        IN  \E base \in 0..1000 :
                /\ 2 * Abs(1000 * Cardinality(populated) - base * r) <= r
                /\ cf.confidence = Num(Clamp(base - Penalty(cf.warnings)))

C23_Witness ==
    /\ cf.stage = "scored"
    /\ cf.ai_confidence = Null
    /\ cf.record_type = "EMAIL"
    /\ Get(cf.data, "email") = Str("")
    /\ Get(cf.data, "client_name") # Null
    /\ Get(cf.data, "message") # Null
    /\ cf.warnings = <<>>
    /\ cf.confidence = Num(667)

\* The populated fields of the schema and the required fields of the
\* completeness of the AI extraction.
InvoiceFields == {"invoice_number", "amount", "vat", "total_amount"}
PopulatedOf(schema) == {f \in schema : Get(cf.data, f) # Null}
RequiredByAI(schema) ==
    IF \E f \in InvoiceFields : Get(cf.data, f) # Null
    THEN schema \cap (InvoiceFields \cup {"date", "client_name"})
    ELSE schema \ (InvoiceFields \cup {"priority", "message"})

C25_MeanOfAverageAndCompleteness ==
    (cf.stage = "parsed" /\ cf.ai_confidence # Null
        /\ PopulatedOf(SchemaOf(cf.schema)) = SchemaOf(cf.schema)) =>
        LET schema == SchemaOf(cf.schema)
            n == Cardinality(schema)
            S == SumOver(cf.field_confidences, schema)
        IN  /\ 2 * Abs(2 * n * cf.ai_confidence.n - (S + 1000 * n)) <= 2 * n
            /\ (/\ cf.schema = "unit_test"
                /\ cf.field_confidences["client_name"] = 950
                /\ cf.field_confidences["email"] = 900
                /\ cf.field_confidences["phone"] = 850)
                => cf.ai_confidence = Num(950)

\* C26: the processed files are a set.  mark_file_processed adds its path,
\* and changes nothing when the path is marked already; clear_processed_files
\* empties the set; no other step, so no add, remove, update or clear of
\* records, changes it; is_file_processed answers membership, so it is true
\* exactly for the paths marked since the last clear_processed_files.
C26_ProcessedFilesSet ==
    [][LET starts(op) == Idle(SeqCaller) /\ arg'[SeqCaller].op = op
       IN  /\ processed_files' =
                IF starts("mark_file_processed")
                THEN processed_files \cup {arg'[SeqCaller].id}
                ELSE IF starts("clear_processed_files") THEN {}
                ELSE processed_files
           /\ \A f \in FileSet :
                is_file_processed(f)' =
                    IF starts("mark_file_processed") /\ arg'[SeqCaller].id = f
                    THEN TRUE
                    ELSE IF starts("clear_processed_files") THEN FALSE
                    ELSE is_file_processed(f)]_vars

C26_Witness ==
    /\ Returned("mark_file_processed")
    /\ arg[SeqCaller].id \in arg[SeqCaller].pre.processed_files
    /\ processed_files = arg[SeqCaller].pre.processed_files
    /\ Cardinality(processed_files) = 1
    /\ Len(events) > 0

\* ---------------------------------------------------- review properties
Quiet == \A c \in Callers : Idle(c) /\ api.req[c].stage = "idle"

\* C27 (as claimed): a record that was added is in the queue iff it has been
\* neither approved nor rejected: once a reject or an approve has answered
\* success the id is not found any more, an approved record has its row in a
\* sheet, an approve answers success only after the row was written, and a
\* record nobody has approved or rejected is still found when no call is in
\* flight.
C27_QueuedIffUndecided ==
    /\ \A id \in Ids :
        hist.addOk[id] = 1 =>
            /\ id \in api.approved \cup api.rejected => get_by_id(id) = NoDoc
            /\ id \in api.approved =>
                    \E k \in 1..Len(sheets) : sheets[k].id = id
            /\ (Quiet /\ id \notin api.approved \cup api.rejected)
                    => get_by_id(id) # NoDoc
    /\ \A c \in Callers :
        (api.req[c].route = "approve" /\ api.req[c].stage = "answered") =>
            /\ api.req[c].answer = "Success" => api.req[c].write = "ok"
            /\ api.req[c].write \in {"ValueError", "WriteError"} =>
                    api.req[c].answer = "SheetFailure"

\* C28 (as claimed): a request to approve, reject or edit an id that is not
\* in the queue is answered 404, also when the record is removed between the
\* handler's get_by_id and its remove or update.
C28_AbsentIdIs404 ==
    \A c \in Callers :
        (api.req[c].stage = "answered" /\ api.req[c].gone) =>
            api.req[c].answer = "404"

\* C29: write_client_record raises for every record that is neither FORM nor
\* EMAIL and write_invoice_record for every record that is neither INVOICE
\* nor has an invoice number; approve sends a record that is INVOICE or has an
\* invoice number to the Invoices sheet and every other record to the Clients
\* sheet, so its write never raises the sink's ValueError.
C29_ApprovalFitsSheet ==
    \A c \in Callers :
        /\ api.req[c].write # "ValueError"
        /\ api.req[c].record # NoDoc =>
            LET record == api.req[c].record
                invoice == record["type"] = Str("INVOICE")
                                \/ Truthy(record["invoice_number"])
            IN  /\ (write_client_record(record) = "ValueError")
                        <=> record["type"].s \notin {"FORM", "EMAIL"}
                /\ (write_invoice_record(record) = "ValueError") <=> ~invoice
                /\ approve_write_record(record) =
                        IF invoice THEN "Invoices" ELSE "Clients"

C29_Witness ==
    \E c \in Callers :
        /\ api.req[c].route = "approve"
        /\ api.req[c].answer = "Success"
        /\ api.req[c].record["type"] = Str("EMAIL")
        /\ sheets = <<[sheet |-> "Invoices", id |-> ReviewId]>>

\* ------------------------------------------------- identity properties
\* list_all: the records of the indexed ids that are stored, as the set of
\* their places in the reply (one per indexed id) with the record's id.
list_all == [i \in record_ids \cap DOMAIN records |-> get_by_id(i)["id"].s]

\* C30 (as claimed): an update leaves the identity of the stored record
\* alone: whatever fields the mapping names, the record stored under an id has
\* that id and the type, source file and extraction timestamp it had before,
\* and the ids of the records list_all returns are pairwise distinct and are
\* the indexed ids.
C30_IdentityImmutable ==
    /\ Returned("update") /\ res[SeqCaller] = "ok" =>
        LET a == arg[SeqCaller] IN
        /\ records[a.id]["id"] = Str(a.id)
        /\ \A f \in {"type", "source_file", "extraction_timestamp"} :
                records[a.id][f] = a.pre.records[a.id][f]
    /\ \A i \in DOMAIN list_all : list_all[i] = i

\* Callers working on ids of their own, as the tasks of
\* test_thread_safety_concurrent_operations do, on a queue that holds some of
\* the records already.
OwnId(c) == IF c = "c1" THEN "r1" ELSE "r2"
DistinctRecord(id) == MkRecord(id, "FORM", "form_0.html", Num(800), Str("Client"))
DistinctUpdates == {[confidence |-> Num(950)], [client_name |-> Str("c")]}

InitDistinct ==
    /\ \E S \in SUBSET Ids :
        LET ev(i) == Event("record_added", i, DistinctRecord(i)["type"],
                           DistinctRecord(i)["confidence"], {})
            first == CHOOSE i \in S : TRUE
        IN  /\ records = [i \in S |-> model_dump_json(DistinctRecord(i))]
            /\ record_ids = S
            /\ events = IF S = {} THEN <<>>
                        ELSE IF Cardinality(S) = 1 THEN <<ev(first)>>
                        ELSE <<ev(first), ev(CHOOSE j \in S : j # first)>>
            /\ hist = [addOk |-> [i \in Ids |-> IF i \in S THEN 1 ELSE 0],
                       dels |-> [i \in Ids |-> 0],
                       fileAdds |-> [f \in FileSet |-> 0],
                       pfCleared |-> FALSE]
    /\ processed_files = {}
    /\ pc = [c \in Callers |-> "idle"]
    /\ arg = [c \in Callers |-> NoArg]
    /\ res = [c \in Callers |-> "none"]
    /\ calls = 0
    /\ spc = [s \in Scans |-> "idle"]
    /\ sc = [s \in Scans |-> NoLocals]
    /\ scans = 0
    /\ sh = [s \in Scans |-> NoHistory]
    /\ subs = [s \in Subscribers |-> NoSubscription]
    /\ ws = NoBroadcast
    /\ hp = NoParse
    /\ ex = NoExtract
    /\ InitService

NextDistinct ==
    \E c \in Callers :
        \/ add_exists(c, DistinctRecord(OwnId(c)))
        \/ add_pipe(c)
        \/ add_pub(c)
        \/ remove_exists(c, OwnId(c))
        \/ remove_pipe(c)
        \/ remove_pub(c)
        \/ \E u \in DistinctUpdates : update_get(c, OwnId(c), u)
        \/ update_set(c)
        \/ update_pub(c)
        \/ list_smembers(c)
        \/ list_mget(c)
        \/ return(c)

SpecDistinct == InitDistinct /\ [][NextDistinct]_vars

\* Rows written to the spreadsheet, one call after the other.
NextSheet ==
    \/ \E sheet \in {"Clients", "Invoices"}, id \in Ids :
        write_to_sheet(sheet, id)
    \/ \E err \in SinkErrors \cup {"none"}, applied \in BOOLEAN :
        append_row(err, applied)
    \/ \E err \in SinkErrors \cup {"none"} : get_all_values(err)
    \/ write_returns

SpecSheet == Init /\ [][NextSheet]_vars

\* ------------------------------------------------ robustness properties
\* C31 (as claimed): a data error in a document is never fatal for it:
\* whatever its fields hold, extract_from_file does not raise but returns a
\* record.
C31_DataErrorsNotFatal == cf.stage # "raised"


\* The part of the store that belongs to id i is as the call of c found it.
Untouched(c, i) ==
    /\ (i \in DOMAIN records) = (i \in DOMAIN arg[c].pre.records)
    /\ i \in DOMAIN records => records[i] = arg[c].pre.records[i]
    /\ (i \in record_ids) = (i \in arg[c].pre.record_ids)

\* C32: callers working concurrently on pairwise distinct ids do not
\* interfere: each add, update and remove finds its id as it was when the
\* call began and leaves it as the same call run alone would (added, removed,
\* updated with every field of the update applied, or untouched when the call
\* raised), whatever the other caller and list_all do meanwhile; and between
\* calls the queue's count is the initial count plus the adds minus the
\* removes.
C32_DistinctIdsDoNotInterfere ==
    /\ \A c \in Callers :
        LET i == arg[c].id
            op == arg[c].op
            ok == pc[c] = "done" /\ res[c] = "ok"
        IN  op \in {"add", "remove", "update"} =>
            /\ pc[c] \in {"add_pipe", "remove_pipe", "update_set"} =>
                    Untouched(c, i)
            /\ pc[c] = "done" /\ res[c] # "ok" => Untouched(c, i)
            /\ ok /\ op = "add" =>
                    /\ i \notin DOMAIN arg[c].pre.records
                    /\ i \in record_ids
                    /\ Exists(i) /\ records[i] = model_dump_json(arg[c].rec)
            /\ ok /\ op = "remove" =>
                    /\ i \in DOMAIN arg[c].pre.records
                    /\ i \notin record_ids
                    /\ ~Exists(i)
            /\ ok /\ op = "update" =>
                    /\ i \in record_ids
                    /\ Exists(i)
                    /\ records[i] = model_dump_json(ExtractionRecord(
                            DictUpdate(arg[c].pre.records[i], arg[c].upd)))
    /\ (\A c \in Callers : pc[c] \in {"idle", "done"}) =>
            /\ record_ids = DOMAIN records
            /\ Cardinality(record_ids) =
                    SumOver(hist.addOk, Ids) - SumOver(hist.dels, Ids)

\* An update of r1 and a remove of r2 that overlapped have both returned.
C32_Witness ==
    /\ pc["c1"] = "done" /\ res["c1"] = "ok" /\ arg["c1"].op = "update"
    /\ pc["c2"] = "done" /\ res["c2"] = "ok" /\ arg["c2"].op = "remove"
    /\ "r2" \in DOMAIN arg["c1"].pre.records
    /\ "r1" \in DOMAIN arg["c2"].pre.records
    /\ arg["c2"].pre.records["r1"] = model_dump_json(DistinctRecord("r1"))

\* s can be had from t by leaving elements out.
RECURSIVE IsSubseq(_, _)
IsSubseq(s, t) ==
    IF s = <<>> THEN TRUE
    ELSE IF t = <<>> THEN FALSE
    ELSE IF Head(s) = Head(t) THEN IsSubseq(Tail(s), Tail(t))
    ELSE IsSubseq(s, Tail(t))

Running == ws.task \in {"created", "listening", "sending"}

\* C33: at most one broadcast task is not done at any time, also when
\* start_broadcasting is called while the task runs; what a connection was
\* sent is the published events with some left out, in their order, so no
\* event reaches a connection twice; and once stop_broadcasting has returned
\* the task is done and no connection is sent anything until
\* start_broadcasting creates a task again.
C33_OneBroadcastTask ==
    /\ [](/\ ws.live = (IF Running THEN 1 ELSE 0)
          /\ \A w \in Conns : IsSubseq(ws.sent[w], events)
          /\ ws.stopped => ws.task = "cancelled")
    /\ [][ws.stopped => ws'.sent = ws.sent \/ ~ws'.stopped]_vars

\* start_broadcasting was called while the task ran, the task has sent an
\* event to a connection, and it was stopped; of the two events published
\* the connection has one.
C33_Witness ==
    /\ ws.kept
    /\ ws.stopped
    /\ Len(events) = 2
    /\ \E w \in Conns : Len(ws.sent[w]) = 1

\* The events of a type published for an id so far.
CountEvents(type, id) ==
    Cardinality({k \in 1..Len(events) :
        events[k].type = type /\ events[k].record_id = id})

\* Both callers' remove calls for id began with the same events published,
\* and both have returned successfully.
BothRemoved(id) ==
    /\ \A c \in Callers :
        /\ pc[c] = "done" /\ res[c] = "ok"
        /\ arg[c].op = "remove" /\ arg[c].id = id
    /\ arg["c1"].pre.nevents = arg["c2"].pre.nevents

\* C34 (as claimed): of two remove calls racing for an id only one succeeds
\* and publishes, the other raises; and at any time no more record_removed
\* events than record_added events have been published for an id.
C34_OneRemoveSucceeds ==
    \A id \in Ids :
        /\ ~BothRemoved(id)
        /\ CountEvents("record_removed", id) <= CountEvents("record_added", id)

\* C35 (as claimed): a removed record does not come back: a record that
\* get_by_id does not find is found again only when an add has stored it,
\* also when an update of it was in flight while it was removed.
C35_RemovedStaysRemoved ==
    [][\A id \in Ids :
        ~Exists(id) /\ Exists(id)' =>
            \E c \in Callers :
                /\ pc[c] = "add_pipe" /\ arg[c].id = id
                /\ pc'[c] = "add_pub"]_vars

\* The rows the spreadsheet holds for a record.
Rows(id) == {k \in 1..Len(sheets) : sheets[k].id = id}

\* C36 (as claimed): however many approve requests race for an id, the
\* spreadsheet gets one row for it at most, and one request at most is
\* answered with success.
C36_ApprovedOnce ==
    \A id \in Ids :
        /\ Cardinality(Rows(id)) <= 1
        /\ Cardinality({c \in Callers :
                /\ api.req[c].route = "approve" /\ api.req[c].id = id
                /\ api.req[c].answer = "Success"}) <= 1

\* C37 (as claimed): the counters of every ScanResult add up: each file
\* discovered was either processed or failed, no more items are new than
\* files were processed, and there is one error message per failed file.
C37_ScanResultConsistent ==
    \A s \in Scans :
        spc[s] = "done" =>
            /\ sc[s].processed_count + sc[s].failed_count = Len(sc[s].files)
            /\ sc[s].new_items_count <= sc[s].processed_count
            /\ Len(sc[s].errors) = sc[s].failed_count


\* C38 (as claimed): a sheet write under retry appends exactly once: a call
\* that has returned a row number has appended one row, a call that has
\* raised has appended none, whichever calls of the library failed in which
\* attempt.
C38_AppendsExactlyOnce ==
    /\ wr.stage = "returned" => Len(sheets) = wr.before + 1
    /\ wr.stage = "raised" => Len(sheets) = wr.before
====
